---- MODULE Spec2Model ----
(***************************************************************************)
(* Model of the spatial layout engine of Markdown3D-MCP: the octree        *)
(* (core/octree.ts), the collision detector (core/collision-detector.ts),  *)
(* the force simulator (core/force-directed-3d.ts), the layout templates   *)
(* (core/layout-templates.ts) and the integrator                           *)
(* (core/spatial-optimizer-v2.ts).                                         *)
(*                                                                         *)
(* Numbers.  The program computes in IEEE doubles.  The octree is modelled *)
(* on integer coordinates whose midpoints are exact.  Everything else is   *)
(* modelled in fixed point: a real value v is the integer v * U, products  *)
(* and quotients are rescaled by U and truncated toward zero.  Comparisons *)
(* of distances are made on the squares, which is exact.                   *)
(***************************************************************************)
EXTENDS Integers, Sequences, FiniteSets, TLC

VARIABLES
    root,        \* Octree.root: the tree of OctreeCell
    octBounds,   \* Octree.bounds
    inserts,     \* number of Octree.insert calls made so far (gives entry ids)
    accepted,    \* the entries whose insert returned true since the last clear
    octResult,   \* what the last Octree operation was called with and returned
    nodes,         \* the caller's NM3Node array, mutated in place
    minSeparation, \* CollisionDetector.minSeparation of the detector in use
    pc,            \* where the caller is in the call it is making
    passes,        \* resolveCollisions: detectCollisions calls made by this call
    passCap,       \* resolveCollisions: its maxIterations argument
    collisions,    \* the CollisionInfo array of the last detectCollisions
    totalResolved, \* resolveCollisions: its totalResolved counter
    links,         \* the caller's NM3Link array
    config,        \* optimize: its OptimizationConfig argument
    forceCfg,      \* SpatialOptimizerV2.forceDirected: the ForceConfig of that instance
    velocities,    \* ForceDirected3D.velocities, by node index
    iter,          \* simulate: the loop variable iter
    iterCap,       \* simulate: its iterations argument
    progress,      \* the calls the progress callback has received
    stages,        \* the stages of optimize begun so far, in order
    xml,           \* ChunkManager: the string given to chunkXML, as UTF-16 code units
    chunkSize,     \* ChunkManager.chunkSize
    chunkFiles,    \* the chunk files on disk, in sequence order, as their UTF-8 content
    manifest,      \* the manifest chunkXML wrote
    outputFile,    \* what assembleChunks did: the file it wrote or the error it threw
    transformCache,\* CacheManager.transformCache, most recently used entry first
    cacheStats,    \* CacheManager.stats.get('transform')
    metrics,       \* MetricsCollector: cache hit, cache miss and transform counters
    calls,         \* the transformWithOptimizations calls made so far, in order
    workers,         \* WorkerPool.workers, as worker numbers
    availableWorkers,\* WorkerPool.availableWorkers
    taskQueue,       \* WorkerPool.taskQueue, as task numbers
    currentTask,     \* worker.__currentTask of each worker, 0 for none
    posted,          \* the tasks posted to each worker that it has not answered
    crashed,         \* the workers that have emitted 'error' and exited
    promises         \* the promise execute returned for each task, by task number

octVars == <<root, octBounds, inserts, accepted, octResult>>

colVars == <<nodes, minSeparation, pc, passes, passCap, collisions, totalResolved>>

optVars == <<links, config, forceCfg, velocities, iter, iterCap, progress, stages>>

chunkVars == <<xml, chunkSize, chunkFiles, manifest, outputFile>>

trVars == <<transformCache, cacheStats, metrics, calls>>

poolVars == <<workers, availableWorkers, taskQueue, currentTask, posted, crashed, promises>>

ioVars == <<chunkVars, trVars, poolVars>>

vars == <<root, octBounds, inserts, accepted, octResult,
          nodes, minSeparation, pc, passes, passCap, collisions, totalResolved,
          links, config, forceCfg, velocities, iter, iterCap, progress, stages,
          xml, chunkSize, chunkFiles, manifest, outputFile,
          transformCache, cacheStats, metrics, calls,
          workers, availableWorkers, taskQueue, currentTask, posted, crashed, promises>>

----------------------------------------------------------------------------
(* Sequence helpers *)

Range(s) == {s[i] : i \in 1..Len(s)}

----------------------------------------------------------------------------
(* OctreeCell *)

DefaultMaxNodes == 8
DefaultMaxDepth == 8

Box(x0, y0, z0, x1, y1, z1) ==
    [minX |-> x0, minY |-> y0, minZ |-> z0, maxX |-> x1, maxY |-> y1, maxZ |-> z1]

\* new OctreeCell(bounds, depth, maxNodes, maxDepth); children = <<>> is null
NewCell(bounds, depth, maxNodes, maxDepth) ==
    [bounds |-> bounds, nodes |-> <<>>, children |-> <<>>,
     maxNodes |-> maxNodes, maxDepth |-> maxDepth, depth |-> depth]

ContainsStrict(cell, node) ==
    /\ node.x >= cell.bounds.minX /\ node.x < cell.bounds.maxX
    /\ node.y >= cell.bounds.minY /\ node.y < cell.bounds.maxY
    /\ node.z >= cell.bounds.minZ /\ node.z < cell.bounds.maxZ

Contains(cell, node) ==
    /\ node.x >= cell.bounds.minX /\ node.x <= cell.bounds.maxX
    /\ node.y >= cell.bounds.minY /\ node.y <= cell.bounds.maxY
    /\ node.z >= cell.bounds.minZ /\ node.z <= cell.bounds.maxZ

\* (min + max) / 2; the bounds used keep every midpoint an integer
Mid(a, b) == (a + b) \div 2

\* the 8 octants in the order of the array literal of subdivide()
ChildCells(cell) ==
    LET b == cell.bounds
        mx == Mid(b.minX, b.maxX)
        my == Mid(b.minY, b.maxY)
        mz == Mid(b.minZ, b.maxZ)
        d == cell.depth + 1
        C(bx) == NewCell(bx, d, cell.maxNodes, cell.maxDepth)
    IN  << C(Box(b.minX, b.minY, b.minZ, mx, my, mz)),
           C(Box(mx, b.minY, b.minZ, b.maxX, my, mz)),
           C(Box(b.minX, my, b.minZ, mx, b.maxY, mz)),
           C(Box(mx, my, b.minZ, b.maxX, b.maxY, mz)),
           C(Box(b.minX, b.minY, mz, mx, my, b.maxZ)),
           C(Box(mx, b.minY, mz, b.maxX, my, b.maxZ)),
           C(Box(b.minX, my, mz, mx, b.maxY, b.maxZ)),
           C(Box(mx, my, mz, b.maxX, b.maxY, b.maxZ)) >>

RECURSIVE CellInsert(_, _)
RECURSIVE TryChildren(_, _, _)
RECURSIVE Redistribute(_, _)

\* "for (const child of children) if (child.insert(node)) ..." from child i on:
\* the first child that takes the node; a refusing child is left as it was
TryChildren(children, node, i) ==
    IF i > Len(children) THEN [ok |-> FALSE, children |-> children]
    ELSE LET r == CellInsert(children[i], node)
         IN  IF r.ok THEN [ok |-> TRUE, children |-> [children EXCEPT ![i] = r.cell]]
             ELSE TryChildren(children, node, i + 1)

\* the redistribution loop of subdivide() over the remaining existing nodes
Redistribute(cell, existing) ==
    IF existing = <<>> THEN cell
    ELSE LET r == TryChildren(cell.children, Head(existing), 1)
             c == IF r.ok THEN [cell EXCEPT !.children = r.children]
                  ELSE [cell EXCEPT !.nodes = Append(@, Head(existing))]
         IN  Redistribute(c, Tail(existing))

Subdivide(cell) ==
    Redistribute([cell EXCEPT !.children = ChildCells(cell), !.nodes = <<>>], cell.nodes)

\* the mutant of insert that lets a cell at the maximum depth subdivide
CellInsertDeeper(cell, node) ==
    IF ~Contains(cell, node) THEN [ok |-> FALSE, cell |-> cell]
    ELSE IF Len(cell.nodes) < cell.maxNodes \/ cell.depth > cell.maxDepth
    THEN [ok |-> TRUE, cell |-> [cell EXCEPT !.nodes = Append(@, node)]]
    ELSE LET c == IF cell.children = <<>> THEN Subdivide(cell) ELSE cell
             r == TryChildren(c.children, node, 1)
         IN  IF r.ok THEN [ok |-> TRUE, cell |-> [c EXCEPT !.children = r.children]]
             ELSE [ok |-> TRUE, cell |-> [c EXCEPT !.nodes = Append(@, node)]]

\* the mutant of insert that subdivides one entry early
CellInsertEarly(cell, node) ==
    IF ~Contains(cell, node) THEN [ok |-> FALSE, cell |-> cell]
    ELSE IF Len(cell.nodes) + 1 < cell.maxNodes \/ cell.depth >= cell.maxDepth
    THEN [ok |-> TRUE, cell |-> [cell EXCEPT !.nodes = Append(@, node)]]
    ELSE LET c == IF cell.children = <<>> THEN Subdivide(cell) ELSE cell
             r == TryChildren(c.children, node, 1)
         IN  IF r.ok THEN [ok |-> TRUE, cell |-> [c EXCEPT !.children = r.children]]
             ELSE [ok |-> TRUE, cell |-> [c EXCEPT !.nodes = Append(@, node)]]

\* OctreeCell.insert: [ok |-> the boolean returned, cell |-> the cell afterwards]
CellInsert(cell, node) ==
    IF ~Contains(cell, node) THEN [ok |-> FALSE, cell |-> cell]
    ELSE IF Len(cell.nodes) < cell.maxNodes \/ cell.depth >= cell.maxDepth
    THEN [ok |-> TRUE, cell |-> [cell EXCEPT !.nodes = Append(@, node)]]
    ELSE LET c == IF cell.children = <<>> THEN Subdivide(cell) ELSE cell
             r == TryChildren(c.children, node, 1)
         IN  IF r.ok THEN [ok |-> TRUE, cell |-> [c EXCEPT !.children = r.children]]
             ELSE [ok |-> TRUE, cell |-> [c EXCEPT !.nodes = Append(@, node)]]

Intersects(cell, range) ==
    ~ \/ range.maxX < cell.bounds.minX \/ range.minX > cell.bounds.maxX
      \/ range.maxY < cell.bounds.minY \/ range.minY > cell.bounds.maxY
      \/ range.maxZ < cell.bounds.minZ \/ range.minZ > cell.bounds.maxZ

NodeInRangeStrict(node, range) ==
    /\ node.x >= range.minX /\ node.x < range.maxX
    /\ node.y >= range.minY /\ node.y < range.maxY
    /\ node.z >= range.minZ /\ node.z < range.maxZ

NodeInRange(node, range) ==
    /\ node.x >= range.minX /\ node.x <= range.maxX
    /\ node.y >= range.minY /\ node.y <= range.maxY
    /\ node.z >= range.minZ /\ node.z <= range.maxZ

RECURSIVE CellQueryRange(_, _)
RECURSIVE QueryChildren(_, _, _)

QueryChildren(children, range, i) ==
    IF i > Len(children) THEN <<>>
    ELSE CellQueryRange(children[i], range) \o QueryChildren(children, range, i + 1)

\* OctreeCell.queryRange: the found array, in the order the code pushes
CellQueryRange(cell, range) ==
    IF ~Intersects(cell, range) THEN <<>>
    ELSE LET InR(n) == NodeInRange(n, range)
         IN  SelectSeq(cell.nodes, InR) \o QueryChildren(cell.children, range, 1)

CellFindNearbyBox(cell, x, y, z, radius) ==
    CellQueryRange(cell, Box(x - radius, y - radius, z - radius,
                             x + radius, y + radius, z + radius))

\* OctreeCell.findNearby: box query, then the filter on the squared distance
CellFindNearby(cell, x, y, z, radius) ==
    LET range == Box(x - radius, y - radius, z - radius,
                     x + radius, y + radius, z + radius)
        candidates == CellQueryRange(cell, range)
        radiusSquared == radius * radius
        Near(n) == (n.x - x) * (n.x - x) + (n.y - y) * (n.y - y)
                     + (n.z - z) * (n.z - z) <= radiusSquared
    IN  SelectSeq(candidates, Near)

----------------------------------------------------------------------------
(* Octree: the public API, driven by a caller *)

MaxInserts == 4

\* the world of the driven tree and the entries and queries the caller uses
OctWorld == Box(-8, -8, -8, 8, 8, 8)

OctPoints ==
    { <<-4, -4, -4>>, <<-6, -6, -6>>, <<4, 4, 4>>, <<0, 0, 0>>,
      <<8, 8, 8>>, <<9, 0, 0>> }

OctCtorArgs == { <<2, 1>>, <<1, 2>> }   \* <<maxNodes, maxDepth>>

OctQueryCentres == { <<0, 0, 0>>, <<8, 8, 8>> }
OctQueryRadii == { 0, 7 }
OctQueryBoxes == { OctWorld, Box(-8, -8, -8, 0, 0, 0) }

\* the variables of the other components, at rest while the octree is driven
ColIdle ==
    /\ nodes = <<>>
    /\ minSeparation = 0
    /\ pc = "idle"
    /\ passes = 0
    /\ passCap = 0
    /\ collisions = <<>>
    /\ totalResolved = 0

OptIdle ==
    /\ links = <<>>
    /\ config = [useForceDirected |-> FALSE]
    /\ forceCfg = [damping |-> 0]
    /\ velocities = <<>>
    /\ iter = 0
    /\ iterCap = 0
    /\ progress = <<>>
    /\ stages = <<>>

ChunkIdle ==
    /\ xml = <<>>
    /\ chunkSize = 0
    /\ chunkFiles = <<>>
    /\ manifest = [totalChunks |-> 0]
    /\ outputFile = [status |-> "none"]

TrIdle ==
    /\ transformCache = <<>>
    /\ cacheStats = [hits |-> 0, misses |-> 0]
    /\ metrics = [cacheHits |-> 0, cacheMisses |-> 0, transforms |-> 0]
    /\ calls = <<>>

PoolIdle ==
    /\ workers = <<>>
    /\ availableWorkers = <<>>
    /\ taskQueue = <<>>
    /\ currentTask = <<>>
    /\ posted = <<>>
    /\ crashed = {}
    /\ promises = <<>>

IoIdle == ChunkIdle /\ TrIdle /\ PoolIdle

OctInit ==
    /\ ColIdle
    /\ OptIdle
    /\ IoIdle
    /\ octBounds = OctWorld
    /\ \E a \in OctCtorArgs : root = NewCell(OctWorld, 0, a[1], a[2])
    /\ inserts = 0
    /\ accepted = <<>>
    /\ octResult = [op |-> "new"]

\* Octree.insert(node)
OctInsert ==
    /\ inserts < MaxInserts
    /\ \E p \in OctPoints :
         LET node == [id |-> inserts + 1, x |-> p[1], y |-> p[2], z |-> p[3], radius |-> 1]
             r == CellInsert(root, node)
         IN  /\ root' = r.cell
             /\ inserts' = inserts + 1
             /\ accepted' = IF r.ok THEN Append(accepted, node) ELSE accepted
             /\ octResult' = [op |-> "insert", node |-> node, ok |-> r.ok]
    /\ UNCHANGED <<octBounds, colVars, optVars, ioVars>>

\* Octree.queryRange(range)
OctQueryRange ==
    /\ \E range \in OctQueryBoxes :
         octResult' = [op |-> "queryRange", range |-> range,
                       found |-> CellQueryRange(root, range)]
    /\ UNCHANGED <<root, octBounds, inserts, accepted, colVars, optVars, ioVars>>

\* Octree.findNearby(x, y, z, radius)
OctFindNearby ==
    /\ \E c \in OctQueryCentres, radius \in OctQueryRadii :
         octResult' = [op |-> "findNearby", x |-> c[1], y |-> c[2], z |-> c[3],
                       radius |-> radius,
                       found |-> CellFindNearby(root, c[1], c[2], c[3], radius)]
    /\ UNCHANGED <<root, octBounds, inserts, accepted, colVars, optVars, ioVars>>

\* Octree.clear(): new OctreeCell(this.bounds), so the default capacity and depth
OctClear ==
    /\ root' = NewCell(octBounds, 0, DefaultMaxNodes, DefaultMaxDepth)
    /\ accepted' = <<>>
    /\ octResult' = [op |-> "clear"]
    /\ UNCHANGED <<octBounds, inserts, colVars, optVars, ioVars>>

OctNext == OctInsert \/ OctQueryRange \/ OctFindNearby \/ OctClear

SpecOctree == OctInit /\ [][OctNext]_vars

----------------------------------------------------------------------------
(* Fixed point *)

\* the integer that stands for 1.0
U == 10 * 10

Abs(a) == IF a < 0 THEN -a ELSE a

\* a / b truncated toward zero, b > 0
TruncDiv(a, b) == IF a >= 0 THEN a \div b ELSE -((-a) \div b)

Min2(a, b) == IF a < b THEN a ELSE b
Max2(a, b) == IF a > b THEN a ELSE b

RECURSIVE SqrtSearch(_, _, _)
SqrtSearch(n, lo, hi) ==
    IF lo >= hi THEN lo
    ELSE LET mid == (lo + hi + 1) \div 2
         IN  IF mid * mid <= n THEN SqrtSearch(n, mid, hi) ELSE SqrtSearch(n, lo, mid - 1)

\* Math.sqrt of a square of fixed-point values: exact on perfect squares,
\* rounded down otherwise
Sqrt(n) == SqrtSearch(n, 0, 46340)

----------------------------------------------------------------------------
(* CollisionDetector *)

DefaultMinSeparation == 200     \* 2.0
SearchMargin == 500             \* the "+ 5" of the search radius
OctreePadding == 1000           \* padding = 10

\* node.scale || 1.0 : a missing scale is modelled as 0, which is falsy too
ScaleOf(node) == IF node.scale = 0 THEN U ELSE node.scale

\* getNodeRadius: baseRadius (1.0) * scale
GetNodeRadius(node) == (U * ScaleOf(node)) \div U

RECURSIVE FoldMin(_, _)
\* Math.min over the values vs[i], vs[i+1], ...
FoldMin(vs, i) ==
    IF i = Len(vs) THEN vs[i] ELSE Min2(vs[i], FoldMin(vs, i + 1))

RECURSIVE FoldMax(_, _)
\* Math.max over the values vs[i], vs[i+1], ...
FoldMax(vs, i) ==
    IF i = Len(vs) THEN vs[i] ELSE Max2(vs[i], FoldMax(vs, i + 1))

RECURSIVE InsertAll(_, _, _)
InsertAll(cell, ns, i) ==
    IF i > Len(ns) THEN cell
    ELSE InsertAll(
           CellInsert(cell, [id |-> ns[i].id, x |-> ns[i].x, y |-> ns[i].y, z |-> ns[i].z,
                             radius |-> GetNodeRadius(ns[i]), data |-> i]).cell,
           ns, i + 1)

\* buildOctree: the root of the Octree built over the nodes (data is the node,
\* modelled by its index in the array)
BuildOctree(ns) ==
    LET Lo(c) == [k \in DOMAIN ns |-> ns[k][c] - GetNodeRadius(ns[k])]
        Hi(c) == [k \in DOMAIN ns |-> ns[k][c] + GetNodeRadius(ns[k])]
        bounds == Box(FoldMin(Lo("x"), 1) - OctreePadding,
                      FoldMin(Lo("y"), 1) - OctreePadding,
                      FoldMin(Lo("z"), 1) - OctreePadding,
                      FoldMax(Hi("x"), 1) + OctreePadding,
                      FoldMax(Hi("y"), 1) + OctreePadding,
                      FoldMax(Hi("z"), 1) + OctreePadding)
    IN  InsertAll(NewCell(bounds, 0, DefaultMaxNodes, DefaultMaxDepth), ns, 1)

\* checkCollision: <<>> for null, else the one CollisionInfo.  distance <
\* minDistance is decided on the squares; overlap and the separation vector
\* use the fixed-point square root
CheckCollision(node1, node2, radius1, radius2, minSep) ==
    LET dx == node2.x - node1.x
        dy == node2.y - node1.y
        dz == node2.z - node1.z
        distSq == dx * dx + dy * dy + dz * dz
        distance == Sqrt(distSq)
        minDistance == radius1 + radius2 + minSep
    IN  IF minDistance > 0 /\ distSq < minDistance * minDistance
        THEN LET overlap == minDistance - distance
                 norm == IF distance > 0 THEN distance ELSE 1
             IN  << [node1 |-> node1.id, node2 |-> node2.id, overlap |-> overlap,
                     separationVector |-> [x |-> TruncDiv(dx * overlap, norm),
                                           y |-> TruncDiv(dy * overlap, norm),
                                           z |-> TruncDiv(dz * overlap, norm)]] >>
        ELSE <<>>

RECURSIVE CheckNearby(_, _, _, _)
\* the inner loop of detectCollisions over the octree's answer for node1
CheckNearby(ns, node1, nearby, minSep) ==
    IF nearby = <<>> THEN <<>>
    ELSE LET octreeNode == Head(nearby)
             node2 == ns[octreeNode.data]
         IN  (IF octreeNode.id = node1.id THEN <<>>
              ELSE CheckCollision(node1, node2, GetNodeRadius(node1),
                                  GetNodeRadius(node2), minSep))
             \o CheckNearby(ns, node1, Tail(nearby), minSep)

\* searchRadius = radius1 + this.minSeparation + 5
SearchRadius(node1, minSep) == GetNodeRadius(node1) + minSep + SearchMargin

RECURSIVE DetectFrom(_, _, _, _)
DetectFrom(ns, tree, minSep, i) ==
    IF i > Len(ns) THEN <<>>
    ELSE CheckNearby(ns, ns[i],
                     CellFindNearby(tree, ns[i].x, ns[i].y, ns[i].z,
                                    SearchRadius(ns[i], minSep)),
                     minSep)
         \o DetectFrom(ns, tree, minSep, i + 1)

\* detectCollisions(nodes): the CollisionInfo array
DetectCollisions(ns, minSep) ==
    IF ns = <<>> THEN <<>> ELSE DetectFrom(ns, BuildOctree(ns), minSep, 1)

\* nodeMap.get(id): the index of the node with that id, 0 for undefined
\* (with equal ids the Map keeps the last)
NodeIndex(ns, id) ==
    IF \E i \in 1..Len(ns) : ns[i].id = id
    THEN CHOOSE i \in 1..Len(ns) : ns[i].id = id /\ \A j \in (i + 1)..Len(ns) : ns[j].id # id
    ELSE 0

\* the body of "for (const collision of collisions)": node1 moves against the
\* separation vector by weight1 * 0.5, node2 along it by weight2 * 0.5, with
\* weight1 = scale2 / totalScale and weight2 = scale1 / totalScale
PushApart(ns, c) ==
    LET i1 == NodeIndex(ns, c.node1)
        i2 == NodeIndex(ns, c.node2)
    IN  IF i1 = 0 \/ i2 = 0 THEN ns
        ELSE LET scale1 == ScaleOf(ns[i1])
                 scale2 == ScaleOf(ns[i2])
                 totalScale == scale1 + scale2
                 v == c.separationVector
                 m1 == [ns EXCEPT ![i1].x = @ - TruncDiv(v.x * scale2, 2 * totalScale),
                                  ![i1].y = @ - TruncDiv(v.y * scale2, 2 * totalScale),
                                  ![i1].z = @ - TruncDiv(v.z * scale2, 2 * totalScale)]
             IN  [m1 EXCEPT ![i2].x = @ + TruncDiv(v.x * scale1, 2 * totalScale),
                            ![i2].y = @ + TruncDiv(v.y * scale1, 2 * totalScale),
                            ![i2].z = @ + TruncDiv(v.z * scale1, 2 * totalScale)]

RECURSIVE ApplyCollisions(_, _)
ApplyCollisions(ns, cs) ==
    IF cs = <<>> THEN ns ELSE ApplyCollisions(PushApart(ns, Head(cs)), Tail(cs))

\* the loop control of resolveCollisions after a detection pass: "break" on
\* zero collisions, else the "iteration < maxIterations" test of the for
AfterPassNoBreak(done, cap, cs) ==
    IF done < cap THEN "resolving" ELSE "returned"

AfterPass(done, cap, cs) ==
    IF cs = <<>> THEN "returned"
    ELSE IF done < cap THEN "resolving" ELSE "returned"

----------------------------------------------------------------------------
(* The CollisionDetector driven by a caller, as testCollisionDetector does *)

MaxColNodes == 2
MaxPassCap == 3

ColPositions ==
    { <<0, 0, 0>>, <<100, 0, 0>>, <<250, 0, 300>>, <<1350, 0, 0>> }

ColScales == { 0, 70, 600 }      \* missing, 0.7, 6.0

ColMinSeparations == { DefaultMinSeparation, 50 }

MkNode(i, p, sc, ty, tg, lv) ==
    [id |-> i, x |-> p[1], y |-> p[2], z |-> p[3], scale |-> sc,
     type |-> ty, tags |-> tg, level |-> lv, title |-> ""]

ColNodeArrays ==
    UNION { { [i \in 1..n |-> MkNode(i, ps[i], ss[i], "sphere", "", 0)] :
                ps \in [1..n -> ColPositions], ss \in [1..n -> ColScales] } :
            n \in 1..MaxColNodes }

OctIdle ==
    /\ root = NewCell(OctWorld, 0, DefaultMaxNodes, DefaultMaxDepth)
    /\ octBounds = OctWorld
    /\ inserts = 0
    /\ accepted = <<>>
    /\ octResult = [op |-> "new"]

ColInit ==
    /\ OctIdle
    /\ IoIdle
    /\ OptIdle
    /\ nodes \in ColNodeArrays
    /\ minSeparation \in ColMinSeparations
    /\ pc = "idle"
    /\ passes = 0
    /\ passCap = 0
    /\ collisions = <<>>
    /\ totalResolved = 0

\* detector.detectCollisions(nodes), before or after a resolveCollisions
ColDetect ==
    /\ pc \in {"idle", "returned"}
    /\ collisions' = DetectCollisions(nodes, minSeparation)
    /\ pc' = IF pc = "idle" THEN "detected" ELSE "rechecked"
    /\ UNCHANGED <<nodes, minSeparation, passes, passCap, totalResolved, octVars, optVars, ioVars>>

\* detector.resolveCollisions(nodes, maxIterations): entry, up to the first
\* test of the for loop
ColResolveCall ==
    /\ pc \in {"idle", "detected"}
    /\ \E maxIterations \in 0..MaxPassCap :
         /\ passCap' = maxIterations
         /\ pc' = IF 0 < maxIterations THEN "resolving" ELSE "returned"
    /\ passes' = 0
    /\ totalResolved' = 0
    /\ UNCHANGED <<nodes, minSeparation, collisions, octVars, optVars, ioVars>>

\* one iteration of the for loop of resolveCollisions, made by a caller that
\* is at "running" while the call runs and at "after" once it has returned
ResolvePass(running, after) ==
    /\ pc = running
    /\ \E cs \in {DetectCollisions(nodes, minSeparation)} :
           /\ collisions' = cs
           /\ passes' = passes + 1
           /\ totalResolved' = totalResolved + Len(cs)
           /\ nodes' = ApplyCollisions(nodes, cs)
           /\ pc' = IF AfterPass(passes + 1, passCap, cs) = "resolving"
                    THEN running ELSE after
    /\ UNCHANGED <<minSeparation, passCap>>

ColResolvePass == ResolvePass("resolving", "returned") /\ UNCHANGED <<octVars, optVars, ioVars>>

ColNext == ColDetect \/ ColResolveCall \/ ColResolvePass

SpecCollide == ColInit /\ [][ColNext]_vars

----------------------------------------------------------------------------
(* ForceDirected3D *)

\* the defaults of the ForceDirected3D constructor, in fixed point
DefaultForceConfig ==
    [repulsionStrength |-> 50 * U, attractionStrength |-> U \div 10,
     centeringStrength |-> U \div 100, damping |-> (8 * U) \div 10,
     minDistance |-> 3 * U, maxDistance |-> 30 * U]

\* { ...defaults, ...config }: a partial config is a record with some of the fields
MergeConfig(defaults, partial) ==
    [k \in DOMAIN defaults |-> IF k \in DOMAIN partial THEN partial[k] ELSE defaults[k]]

Vec(a, b, c) == [x |-> a, y |-> b, z |-> c]
VecAdd(v, w) == [x |-> v.x + w.x, y |-> v.y + w.y, z |-> v.z + w.z]

\* the mutant of buildAdjacencyMap that keeps the direction of the links
BuildAdjacencyMapDirected(ls) ==
    LET ids == { ls[k].from : k \in 1..Len(ls) } \cup { ls[k].to : k \in 1..Len(ls) }
    IN  [id \in ids |-> { ls[k].to : k \in { k \in 1..Len(ls) : ls[k].from = id } }]

\* buildAdjacencyMap: for each id that occurs in a link, the Set of its neighbours
BuildAdjacencyMap(ls) ==
    LET ids == { ls[k].from : k \in 1..Len(ls) } \cup { ls[k].to : k \in 1..Len(ls) }
    IN  [id \in ids |->
            { ls[k].to : k \in { k \in 1..Len(ls) : ls[k].from = id } }
              \cup { ls[k].from : k \in { k \in 1..Len(ls) : ls[k].to = id } }]

\* nodes.find(n => n.id === id): the index of the first such node, 0 for undefined
FindNode(ns, id) ==
    IF \E i \in 1..Len(ns) : ns[i].id = id
    THEN CHOOSE i \in 1..Len(ns) : ns[i].id = id /\ \A j \in 1..(i - 1) : ns[j].id # id
    ELSE 0

RECURSIVE SumOver(_, _)
\* the sum of the vectors f[e] over the elements e of a set
SumOver(f, S) ==
    IF S = {} THEN Vec(0, 0, 0)
    ELSE LET e == CHOOSE e \in S : TRUE IN VecAdd(f[e], SumOver(f, S \ {e}))

\* the repulsion node j puts on node i (zero when it does not apply)
Repulsion(ns, cfg, i, j) ==
    LET dx == ns[i].x - ns[j].x
        dy == ns[i].y - ns[j].y
        dz == ns[i].z - ns[j].z
        distSquared == dx * dx + dy * dy + dz * dz
        dist == Sqrt(distSquared)
    IN  IF distSquared > 0 /\ distSquared < cfg.maxDistance * cfg.maxDistance
        THEN LET repulsion == (cfg.repulsionStrength * U * U) \div (distSquared + (U * U) \div 10)
             IN  Vec(TruncDiv(dx * repulsion, dist), TruncDiv(dy * repulsion, dist),
                     TruncDiv(dz * repulsion, dist))
        ELSE Vec(0, 0, 0)

\* the attraction of node i to the neighbour with that id (zero when it does
\* not apply or the id names no node)
Attraction(ns, cfg, i, neighborId) ==
    LET j == FindNode(ns, neighborId)
    IN  IF j = 0 THEN Vec(0, 0, 0)
        ELSE LET dx == ns[j].x - ns[i].x
                 dy == ns[j].y - ns[i].y
                 dz == ns[j].z - ns[i].z
                 distSquared == dx * dx + dy * dy + dz * dz
                 dist == Sqrt(distSquared)
             IN  IF distSquared > cfg.minDistance * cfg.minDistance
                 THEN LET attraction == TruncDiv(cfg.attractionStrength * (dist - cfg.minDistance), U)
                      IN  Vec(TruncDiv(dx * attraction, dist), TruncDiv(dy * attraction, dist),
                              TruncDiv(dz * attraction, dist))
                 ELSE Vec(0, 0, 0)

RECURSIVE SumCoord(_, _, _)
SumCoord(ns, c, i) == IF i > Len(ns) THEN 0 ELSE ns[i][c] + SumCoord(ns, c, i + 1)

\* calculateForces with the centering force drawn to the origin
CalculateForcesToOrigin(ns, adjacency, cfg) ==
    LET n == Len(ns)
        centerX == 0
        centerY == 0
        centerZ == 0
        rep(i) == SumOver([j \in 1..n |-> Repulsion(ns, cfg, i, j)], (1..n) \ {i})
        att(i) == IF ns[i].id \in DOMAIN adjacency
                  THEN SumOver([id \in adjacency[ns[i].id] |-> Attraction(ns, cfg, i, id)],
                               adjacency[ns[i].id])
                  ELSE Vec(0, 0, 0)
        cen(i) == Vec(TruncDiv((centerX - ns[i].x) * cfg.centeringStrength, U),
                      TruncDiv((centerY - ns[i].y) * cfg.centeringStrength, U),
                      TruncDiv((centerZ - ns[i].z) * cfg.centeringStrength, U))
    IN  [i \in 1..n |-> VecAdd(VecAdd(rep(i), att(i)), cen(i))]

\* calculateForces: the force on each node, by index
CalculateForces(ns, adjacency, cfg) ==
    LET n == Len(ns)
        centerX == TruncDiv(SumCoord(ns, "x", 1), n)
        centerY == TruncDiv(SumCoord(ns, "y", 1), n)
        centerZ == TruncDiv(SumCoord(ns, "z", 1), n)
        rep(i) == SumOver([j \in 1..n |-> Repulsion(ns, cfg, i, j)], (1..n) \ {i})
        att(i) == IF ns[i].id \in DOMAIN adjacency
                  THEN SumOver([id \in adjacency[ns[i].id] |-> Attraction(ns, cfg, i, id)],
                               adjacency[ns[i].id])
                  ELSE Vec(0, 0, 0)
        cen(i) == Vec(TruncDiv((centerX - ns[i].x) * cfg.centeringStrength, U),
                      TruncDiv((centerY - ns[i].y) * cfg.centeringStrength, U),
                      TruncDiv((centerZ - ns[i].z) * cfg.centeringStrength, U))
    IN  [i \in 1..n |-> VecAdd(VecAdd(rep(i), att(i)), cen(i))]

\* applyForces, the velocities: (velocity + force) * damping
NewVelocities(vel, forces, cfg) ==
    [i \in DOMAIN vel |->
        Vec(TruncDiv((vel[i].x + forces[i].x) * cfg.damping, U),
            TruncDiv((vel[i].y + forces[i].y) * cfg.damping, U),
            TruncDiv((vel[i].z + forces[i].z) * cfg.damping, U))]

\* applyForces, the positions: node += velocity
MoveNodes(ns, vel) ==
    [i \in DOMAIN ns |-> [ns[i] EXCEPT !.x = @ + vel[i].x, !.y = @ + vel[i].y, !.z = @ + vel[i].z]]

RECURSIVE TotalEnergy(_, _)
\* applyForces: totalEnergy, the sum of |velocity.x| + |velocity.y| + |velocity.z|
TotalEnergy(vel, i) ==
    IF i > Len(vel) THEN 0
    ELSE Abs(vel[i].x) + Abs(vel[i].y) + Abs(vel[i].z) + TotalEnergy(vel, i + 1)

\* energy < 0.01, with energy = totalEnergy / nodes.length
Converged(total, n) == total * 100 < U * n

StopOnlyAtCap(done, cap, total, n) ==
    IF done < cap THEN "simulating" ELSE "simulated"

\* the loop control of simulate after an iteration: "break" when the energy is
\* below 0.01, else the "iter < iterations" test of the for
AfterIteration(done, cap, total, n) ==
    IF Converged(total, n) THEN "simulated"
    ELSE IF done < cap THEN "simulating" ELSE "simulated"

----------------------------------------------------------------------------
(* LayoutTemplates *)

DefaultLayoutConfig ==
    [spacing |-> 5 * U, verticalSpread |-> 10 * U, horizontalSpread |-> 15 * U,
     depthSpread |-> 15 * U]

\* applyTutorialLayout: node i (from 0) is at row floor(i / 3), column i % 3
ApplyTutorialLayout(ns, cfg) ==
    [k \in DOMAIN ns |->
        LET i == k - 1
            row == i \div 3
            col == i % 3
        IN  [ns[k] EXCEPT !.x = (col - 1) * cfg.spacing,
                          !.y = cfg.verticalSpread - TruncDiv(row * cfg.spacing * 5, 10),
                          !.z = row * cfg.spacing]]

\* applyHierarchicalLayout: Math.min((node.level || 1) - 1, maxLevel - 1), a
\* missing level being 0
HierarchyLevel(node) == Min2((IF node.level = 0 THEN 1 ELSE node.level) - 1, 5 - 1)

\* applyHierarchicalLayout: a node is number i (from 0) of the levelNodes of its
\* level, which has len nodes
ApplyHierarchicalLayout(ns, cfg) ==
    [k \in DOMAIN ns |->
        LET level == HierarchyLevel(ns[k])
            same == { j \in DOMAIN ns : HierarchyLevel(ns[j]) = level }
            len == Cardinality(same)
            i == Cardinality({ j \in same : j < k })
        IN  [ns[k] EXCEPT !.x = TruncDiv((2 * i - len) * cfg.spacing, 2),
                          !.y = cfg.verticalSpread - TruncDiv(level * cfg.verticalSpread, 2),
                          !.z = TruncDiv(-level * cfg.depthSpread, 4)]]

\* String.prototype.includes: word occurs somewhere in s
Includes(s, word) ==
    \E i \in 1..(Len(s) - Len(word) + 1) : SubSeq(s, i, i + Len(word) - 1) = word

UpperCase == "ABCDEFGHIJKLMNOPQRSTUVWXYZ"
LowerCase == "abcdefghijklmnopqrstuvwxyz"

\* toLowerCase of a one-character string
LowerChar(c) ==
    IF \E i \in 1..Len(UpperCase) : SubSeq(UpperCase, i, i) = c
    THEN LET i == CHOOSE i \in 1..Len(UpperCase) : SubSeq(UpperCase, i, i) = c
         IN  SubSeq(LowerCase, i, i)
    ELSE c

RECURSIVE ToLowerCase(_)
\* String.prototype.toLowerCase
ToLowerCase(s) ==
    IF s = "" THEN ""
    ELSE LowerChar(SubSeq(s, 1, 1)) \o ToLowerCase(SubSeq(s, 2, Len(s)))

\* n.title?.toLowerCase().includes(a) || ... over a set of words, a missing
\* title being the empty string
TitleHas(node, words) == \E w \in words : Includes(ToLowerCase(node.title), w)

\* Math.cos of 0, 3, 6, ..., 90 degrees, in fixed point
CosTable ==
    << 100, 100, 99, 99, 98, 97, 95, 93, 91, 89, 87, 84, 81, 78, 74, 71,
       67, 63, 59, 54, 50, 45, 41, 36, 31, 26, 21, 16, 10, 5, 0 >>

\* Math.cos of a multiple of 3 degrees
CosDeg(d) ==
    LET a == d % 360
        b == IF a > 180 THEN 360 - a ELSE a
    IN  IF b <= 90 THEN CosTable[(b \div 3) + 1] ELSE -CosTable[((180 - b) \div 3) + 1]

SinDeg(d) == CosDeg(d + 270)

\* Math.cos and Math.sin of (num / den) * Math.PI * 2
CosTurn(num, den) == CosDeg((360 * num) \div den)
SinTurn(num, den) == SinDeg((360 * num) \div den)

\* the place of node k among the nodes of a category (a set of indices), as
\* forEach((node, i) => ...) of the filtered array counts it, from 0
IndexIn(cat, k) == Cardinality({ j \in cat : j < k })

\* node.x = px; node.y = py; node.z = pz
SetPos(node, px, py, pz) == [node EXCEPT !.x = px, !.y = py, !.z = pz]

\* applyResearchPaperLayout with categorizeByTitle: the categories are placed
\* in the order intro[0], methods, results, conclusion[0], references, other,
\* so a node of several categories ends where the last of them puts it
ApplyResearchPaperLayout(ns, cfg) ==
    LET intro == { k \in DOMAIN ns : TitleHas(ns[k], {"intro", "abstract", "overview"}) }
        methods == { k \in DOMAIN ns : TitleHas(ns[k], {"method", "approach", "implementation"}) }
        results == { k \in DOMAIN ns : TitleHas(ns[k], {"result", "finding", "outcome"}) }
        conclusion == { k \in DOMAIN ns : TitleHas(ns[k], {"conclusion", "summary", "future"}) }
        references == { k \in DOMAIN ns : TitleHas(ns[k], {"reference", "citation", "bibliography"}) }
        other == { k \in DOMAIN ns :
                     ~TitleHas(ns[k], {"intro", "abstract", "method", "approach", "result",
                                       "finding", "conclusion", "summary", "reference",
                                       "citation"}) }
        radius == TruncDiv(cfg.horizontalSpread * 7, 10)
    IN  [k \in DOMAIN ns |->
           IF k \in other
           THEN SetPos(ns[k], TruncDiv(CosTurn(IndexIn(other, k), Cardinality(other)) * radius, U),
                       0, TruncDiv(SinTurn(IndexIn(other, k), Cardinality(other)) * radius, U))
           ELSE IF k \in references
           THEN SetPos(ns[k],
                       TruncDiv((2 * IndexIn(references, k) - Cardinality(references)) * cfg.spacing, 2),
                       TruncDiv(-cfg.verticalSpread, 2), -cfg.depthSpread)
           ELSE IF k \in conclusion /\ IndexIn(conclusion, k) = 0
           THEN SetPos(ns[k], 0, -cfg.verticalSpread, 0)
           ELSE IF k \in results
           THEN SetPos(ns[k], TruncDiv(cfg.horizontalSpread, 2), 0,
                       IndexIn(results, k) * cfg.spacing)
           ELSE IF k \in methods
           THEN SetPos(ns[k], TruncDiv(-cfg.horizontalSpread, 2), 0,
                       IndexIn(methods, k) * cfg.spacing)
           ELSE IF k \in intro /\ IndexIn(intro, k) = 0
           THEN SetPos(ns[k], 0, cfg.verticalSpread, 0)
           ELSE ns[k]]

\* Math.ceil(Math.sqrt(n))
CeilSqrt(n) == CHOOSE g \in 0..n : g * g >= n /\ (g = 0 \/ (g - 1) * (g - 1) < n)

\* applyDocumentationLayout: placed in the order toc[0], guides, other, api
ApplyDocumentationLayout(ns, cfg) ==
    LET toc == { k \in DOMAIN ns : TitleHas(ns[k], {"content", "overview"}) }
        api == { k \in DOMAIN ns : TitleHas(ns[k], {"api", "reference"}) }
        guides == { k \in DOMAIN ns : TitleHas(ns[k], {"guide", "tutorial"}) }
        other == DOMAIN ns \ (toc \cup api \cup guides)
        gridSize == CeilSqrt(Cardinality(other))
    IN  [k \in DOMAIN ns |->
           IF k \in api
           THEN SetPos(ns[k], TruncDiv((2 * IndexIn(api, k) - Cardinality(api)) * cfg.spacing, 2),
                       TruncDiv(-cfg.verticalSpread, 3), -cfg.depthSpread)
           ELSE IF k \in other
           THEN SetPos(ns[k],
                       TruncDiv((2 * (IndexIn(other, k) % gridSize) - gridSize) * cfg.spacing, 2),
                       0,
                       TruncDiv((2 * (IndexIn(other, k) \div gridSize) - gridSize) * cfg.spacing, 2))
           ELSE IF k \in guides
           THEN SetPos(ns[k],
                       TruncDiv((2 * IndexIn(guides, k) - Cardinality(guides)) * cfg.spacing, 2),
                       0, TruncDiv(cfg.depthSpread, 2))
           ELSE IF IndexIn(toc, k) = 0
           THEN SetPos(ns[k], 0, TruncDiv(cfg.verticalSpread, 2), cfg.depthSpread)
           ELSE ns[k]]

\* applyProjectPlanningLayout: placed in the order goals, tasks, completed,
\* blockers, other
ApplyProjectPlanningLayout(ns, cfg) ==
    LET goals == { k \in DOMAIN ns : TitleHas(ns[k], {"goal", "objective"}) }
        tasks == { k \in DOMAIN ns : TitleHas(ns[k], {"task", "todo"}) }
        completed == { k \in DOMAIN ns : TitleHas(ns[k], {"complete", "done"}) }
        blockers == { k \in DOMAIN ns : TitleHas(ns[k], {"block", "issue"}) }
        other == DOMAIN ns \ (goals \cup tasks \cup completed \cup blockers)
        Row(cat, k, step) == TruncDiv((2 * IndexIn(cat, k) - Cardinality(cat)) * step, 2)
    IN  [k \in DOMAIN ns |->
           IF k \in other
           THEN SetPos(ns[k], Row(other, k, cfg.spacing), 0, TruncDiv(-cfg.depthSpread, 2))
           ELSE IF k \in blockers
           THEN SetPos(ns[k], Row(blockers, k, cfg.spacing), TruncDiv(cfg.verticalSpread, 2),
                       cfg.depthSpread)
           ELSE IF k \in completed
           THEN SetPos(ns[k], Row(completed, k, cfg.spacing), -cfg.verticalSpread,
                       TruncDiv(cfg.depthSpread, 2))
           ELSE IF k \in tasks
           THEN SetPos(ns[k], Row(tasks, k, TruncDiv(cfg.spacing * 15, 10)), 0, 0)
           ELSE SetPos(ns[k], Row(goals, k, cfg.spacing), cfg.verticalSpread, 0)]

\* applyKnowledgeBaseLayout: the first index/home/main node in the centre,
\* the others on circles of 8
ApplyKnowledgeBaseLayout(ns, cfg) ==
    LET mains == { k \in DOMAIN ns : TitleHas(ns[k], {"index", "home", "main"}) }
        others == { k \in DOMAIN ns : k \notin mains \/ IndexIn(mains, k) # 0 }
    IN  [k \in DOMAIN ns |->
           IF k \in others
           THEN LET i == IndexIn(others, k)
                    layer == (i \div 8) + 1
                    radius == layer * cfg.spacing * 2
                IN  SetPos(ns[k], TruncDiv(CosTurn(i % 8, 8) * radius, U),
                           TruncDiv((2 * (layer % 2) - 1) * cfg.verticalSpread, 6),
                           TruncDiv(SinTurn(i % 8, 8) * radius, U))
           ELSE SetPos(ns[k], 0, 0, 0)]

ApplyTimelineLayoutShifting(ns, cfg) ==
    [k \in DOMAIN ns |->
        LET i == k - 1
        IN  SetPos(ns[k], ns[k].x + TruncDiv((2 * i - Len(ns)) * cfg.spacing, 2),
                   TruncDiv(SinTurn(i, 2 * Len(ns)) * cfg.verticalSpread, 2 * U), 0)]

\* applyTimelineLayout
ApplyTimelineLayout(ns, cfg) ==
    [k \in DOMAIN ns |->
        LET i == k - 1
        IN  SetPos(ns[k], TruncDiv((2 * i - Len(ns)) * cfg.spacing, 2),
                   TruncDiv(SinTurn(i, 2 * Len(ns)) * cfg.verticalSpread, 2 * U), 0)]

\* applyConceptMapLayout: node i (from 0) is in cluster i % clusterCount
ApplyConceptMapLayout(ns, cfg) ==
    LET clusterCount == Min2(5, (Len(ns) + 3) \div 4)
    IN  [k \in DOMAIN ns |->
           LET clusterIndex == (k - 1) % clusterCount
               cluster == { j \in DOMAIN ns : (j - 1) % clusterCount = clusterIndex }
               i == IndexIn(cluster, k)
               centerX == TruncDiv(CosTurn(clusterIndex, clusterCount) * cfg.horizontalSpread, U)
               centerZ == TruncDiv(SinTurn(clusterIndex, clusterCount) * cfg.horizontalSpread, U)
               localRadius == cfg.spacing * 2
           IN  SetPos(ns[k],
                      centerX + TruncDiv(CosTurn(i, Cardinality(cluster)) * localRadius, U),
                      0,
                      centerZ + TruncDiv(SinTurn(i, Cardinality(cluster)) * localRadius, U))]

\* applyHierarchicalLayout: levels.get(level)!.push(node) on a level below 0,
\* for which the map has no list, throws a TypeError; no node has been
\* positioned by then
HierarchicalThrows(ns) == \E k \in DOMAIN ns : HierarchyLevel(ns[k]) < 0

\* applyTemplate throws
TemplateThrows(ns, layoutType) == layoutType = "hierarchical" /\ HierarchicalThrows(ns)

\* applyTemplate, with the default LayoutConfig
ApplyTemplate(ns, layoutType) ==
    CASE layoutType = "research-paper" -> ApplyResearchPaperLayout(ns, DefaultLayoutConfig)
      [] layoutType = "documentation" -> ApplyDocumentationLayout(ns, DefaultLayoutConfig)
      [] layoutType = "project-planning" -> ApplyProjectPlanningLayout(ns, DefaultLayoutConfig)
      [] layoutType = "knowledge-base" -> ApplyKnowledgeBaseLayout(ns, DefaultLayoutConfig)
      [] layoutType = "tutorial" -> ApplyTutorialLayout(ns, DefaultLayoutConfig)
      [] layoutType = "hierarchical" ->
           IF HierarchicalThrows(ns) THEN ns
           ELSE ApplyHierarchicalLayout(ns, DefaultLayoutConfig)
      [] layoutType = "timeline" -> ApplyTimelineLayout(ns, DefaultLayoutConfig)
      [] layoutType = "concept-map" -> ApplyConceptMapLayout(ns, DefaultLayoutConfig)
      [] OTHER -> ns

----------------------------------------------------------------------------
(* SpatialOptimizerV2 *)

DefaultIterations == 100
ResolveIterations == 20

\* tags.includes(word) of a string: word occurs somewhere in the comma-joined
\* tags (no tags at all being the empty string)
TagsInclude(tags, word) ==
    \E i \in 1..(Len(tags) - Len(word) + 1) : SubSeq(tags, i, i + Len(word) - 1) = word

ConventionsStoringScale(node) ==
    LET scale == ScaleOf(node)
        dz == IF scale * 10 > 15 * U THEN 5 * U
              ELSE IF scale * 10 < 8 * U THEN -3 * U ELSE 0
        dy == IF node.type = "pyramid" THEN 2 * U
              ELSE IF node.type = "torus" THEN U
              ELSE IF node.type = "cube"
                      /\ (TagsInclude(node.tags, "code") \/ TagsInclude(node.tags, "technical"))
                   THEN -U ELSE 0
    IN  [node EXCEPT !.z = @ + dz, !.y = @ + dy, !.scale = scale]

\* the body of the loop of applySpatialConventions
Conventions(node) ==
    LET scale == ScaleOf(node)
        dz == IF scale * 10 > 15 * U THEN 5 * U
              ELSE IF scale * 10 < 8 * U THEN -3 * U ELSE 0
        dy == IF node.type = "pyramid" THEN 2 * U
              ELSE IF node.type = "torus" THEN U
              ELSE IF node.type = "cube"
                      /\ (TagsInclude(node.tags, "code") \/ TagsInclude(node.tags, "technical"))
                   THEN -U ELSE 0
    IN  [node EXCEPT !.z = @ + dz, !.y = @ + dy]

ApplySpatialConventions(ns) == [i \in DOMAIN ns |-> Conventions(ns[i])]

\* spreadRadius = Math.max(10, nodes.length * 2)
SpreadRadius(ns) == Max2(10 * U, Len(ns) * 2 * U)

StageAfterIgnoringFlags(cfg, from) ==
    IF from = "stage1" THEN "force"
    ELSE IF from = "force" THEN "collide"
    ELSE "conventions"

\* where optimize goes on after a stage: the "if (config.useForceDirected)" and
\* "if (config.useCollisionResolution)" tests
StageAfter(cfg, from) ==
    IF from = "stage1" /\ cfg.useForceDirected THEN "force"
    ELSE IF from \in {"stage1", "force"} /\ cfg.useCollisionResolution THEN "collide"
    ELSE "conventions"

----------------------------------------------------------------------------
(* optimize called on a new SpatialOptimizerV2 *)

MaxOptNodes == 2
\* the simulation is followed while every coordinate stays within 100 units,
\* which keeps the squares of the distances within 32 bits
MaxCoord == 10000

\* what a node can be: <<scale, type, tags, level>>
NodeKinds ==
    << <<U, "sphere", "", 1>>,
       <<(16 * U) \div 10, "pyramid", "conceptual,main", 2>>,
       <<(7 * U) \div 10, "cube", "technical,code", 6>>,
       <<0, "torus", "procedural", 0>>,
       <<(15 * U) \div 10, "cube", "descriptive", 2>>,
       <<(8 * U) \div 10, "cylinder", "code", 1>>,
       <<U, "cube", "barcode,list", 1>> >>

\* the node arrays optimize is called with: n successive kinds, from any first
OptNodeArrays ==
    { [i \in 1..n |->
         LET k == NodeKinds[((first + i - 2) % Len(NodeKinds)) + 1]
         IN  MkNode(i, <<i * U, i * U, i * U>>, k[1], k[2], k[3], k[4])] :
      n \in 1..MaxOptNodes, first \in 1..Len(NodeKinds) }

OptLinkArrays == { <<>>, << [from |-> 1, to |-> 2] >> }

\* points Math.random() can give initializeRandomPositions, all within 10 of
\* the origin
RandomPoints == { <<0, 0, 0>>, <<0, 4 * U, 0>> }

\* OptimizationConfig: an unset template is "none", an unset forceConfig the
\* empty set, an unset maxIterations or minSeparation 0; values that the call
\* never reads are left unset
OptConfigs ==
    { c \in [useForceDirected : BOOLEAN, useCollisionResolution : BOOLEAN,
             useLayoutTemplate : {"none", "hierarchical", "tutorial"},
             forceConfig : { {}, { [damping |-> U \div 2, centeringStrength |-> 0] } },
             maxIterations : {0, 3},
             minSeparation : {0, U}] :
        /\ (~c.useForceDirected => c.forceConfig = {} /\ c.maxIterations = 0)
        /\ (~c.useCollisionResolution => c.minSeparation = 0) }

OptInit ==
    /\ OctIdle
    /\ IoIdle
    /\ nodes \in OptNodeArrays
    /\ links \in OptLinkArrays
    /\ minSeparation = DefaultMinSeparation
    /\ forceCfg = DefaultForceConfig
    /\ config = [useForceDirected |-> FALSE]
    /\ pc = "idle"
    /\ passes = 0
    /\ passCap = 0
    /\ collisions = <<>>
    /\ totalResolved = 0
    /\ velocities = <<>>
    /\ iter = 0
    /\ iterCap = 0
    /\ progress = <<>>
    /\ stages = <<>>

\* optimize(nodes, links, config) is called
OptCall ==
    /\ pc = "idle"
    /\ config' \in OptConfigs
    /\ pc' = "stage1"
    /\ UNCHANGED <<nodes, links, minSeparation, forceCfg, passes, passCap, collisions,
                   totalResolved, velocities, iter, iterCap, progress, stages, octVars, ioVars>>

\* step 1 with a template: layoutTemplates.applyTemplate
OptTemplate ==
    /\ pc = "stage1"
    /\ config.useLayoutTemplate # "none"
    /\ nodes' = ApplyTemplate(nodes, config.useLayoutTemplate)
    /\ stages' = Append(stages, "template")
    /\ pc' = StageAfter(config, "stage1")
    /\ UNCHANGED <<links, config, minSeparation, forceCfg, passes, passCap, collisions,
                   totalResolved, velocities, iter, iterCap, progress, octVars, ioVars>>

\* step 1 without one: initializeRandomPositions
OptRandom ==
    /\ pc = "stage1"
    /\ config.useLayoutTemplate = "none"
    /\ \E ps \in [DOMAIN nodes -> RandomPoints] :
         /\ \A i \in DOMAIN nodes :
              ps[i][1] * ps[i][1] + ps[i][2] * ps[i][2] + ps[i][3] * ps[i][3]
                <= SpreadRadius(nodes) * SpreadRadius(nodes)
         /\ nodes' = [i \in DOMAIN nodes |->
                        [nodes[i] EXCEPT !.x = ps[i][1], !.y = ps[i][2], !.z = ps[i][3]]]
    /\ stages' = Append(stages, "random")
    /\ pc' = StageAfter(config, "stage1")
    /\ UNCHANGED <<links, config, minSeparation, forceCfg, passes, passCap, collisions,
                   totalResolved, velocities, iter, iterCap, progress, octVars, ioVars>>

\* step 2: a new ForceDirected3D when a forceConfig is given, then simulate up
\* to the first test of its for loop
OptForceStart ==
    /\ pc = "force"
    /\ forceCfg' = IF config.forceConfig # {}
                   THEN MergeConfig(DefaultForceConfig, CHOOSE f \in config.forceConfig : TRUE)
                   ELSE forceCfg
    /\ velocities' = [i \in DOMAIN nodes |-> Vec(0, 0, 0)]
    /\ iter' = 0
    /\ iterCap' = IF config.maxIterations # 0 THEN config.maxIterations ELSE DefaultIterations
    /\ pc' = IF 0 < iterCap' THEN "simulating" ELSE StageAfter(config, "force")
    /\ stages' = Append(stages, "force")
    /\ UNCHANGED <<nodes, links, config, minSeparation, passes, passCap, collisions,
                   totalResolved, progress, octVars, ioVars>>

\* one iteration of the for loop of simulate, with optimize's progress callback
OptForceIter ==
    /\ pc = "simulating"
    /\ \E vel \in {NewVelocities(velocities,
                                  CalculateForces(nodes, BuildAdjacencyMap(links), forceCfg),
                                  forceCfg)} :
       LET total == TotalEnergy(vel, 1)
       IN  /\ velocities' = vel
           /\ nodes' = MoveNodes(nodes, vel)
           /\ progress' = Append(progress, [iteration |-> iter,
                                            energy |-> TruncDiv(total, Len(nodes))])
           /\ iter' = iter + 1
           /\ pc' = IF AfterIteration(iter + 1, iterCap, total, Len(nodes)) = "simulating"
                    THEN "simulating" ELSE StageAfter(config, "force")
           /\ \A i \in DOMAIN nodes :
                /\ Abs(nodes[i].x + vel[i].x) <= MaxCoord
                /\ Abs(nodes[i].y + vel[i].y) <= MaxCoord
                /\ Abs(nodes[i].z + vel[i].z) <= MaxCoord
    /\ UNCHANGED <<links, config, minSeparation, forceCfg, passes, passCap, collisions,
                   totalResolved, iterCap, stages, octVars, ioVars>>

\* step 3: a new CollisionDetector when a minSeparation is given, then
\* resolveCollisions(nodes, 20) up to the first test of its for loop
OptResolveStart ==
    /\ pc = "collide"
    /\ minSeparation' = IF config.minSeparation # 0 THEN config.minSeparation
                        ELSE minSeparation
    /\ passes' = 0
    /\ passCap' = ResolveIterations
    /\ totalResolved' = 0
    /\ pc' = IF 0 < ResolveIterations THEN "optResolving" ELSE "conventions"
    /\ stages' = Append(stages, "collide")
    /\ UNCHANGED <<nodes, links, config, forceCfg, collisions, velocities, iter, iterCap,
                   progress, octVars, ioVars>>

OptResolvePass ==
    /\ ResolvePass("optResolving", "conventions")
    /\ UNCHANGED <<optVars, octVars, ioVars>>

\* step 4: applySpatialConventions, and optimize returns
OptConventions ==
    /\ pc = "conventions"
    /\ nodes' = ApplySpatialConventions(nodes)
    /\ stages' = Append(stages, "conventions")
    /\ pc' = "done"
    /\ UNCHANGED <<links, config, minSeparation, forceCfg, passes, passCap, collisions,
                   totalResolved, velocities, iter, iterCap, progress, octVars, ioVars>>

Next ==
    \/ OptCall \/ OptTemplate \/ OptRandom \/ OptForceStart \/ OptForceIter
    \/ OptResolveStart \/ OptResolvePass \/ OptConventions

Spec == OptInit /\ [][Next]_vars

\* optimize has returned and is called again on the same SpatialOptimizerV2,
\* with the node array as it was first given, the same links and any config:
\* the locals of the call are new, this.forceDirected and
\* this.collisionDetector are the instance's
OptCallAgain ==
    /\ pc = "done"
    /\ config' \in OptConfigs
    /\ nodes' = [i \in DOMAIN nodes |-> [nodes[i] EXCEPT !.x = i * U, !.y = i * U, !.z = i * U]]
    /\ pc' = "stage1"
    /\ passes' = 0
    /\ passCap' = 0
    /\ collisions' = <<>>
    /\ totalResolved' = 0
    /\ velocities' = <<>>
    /\ iter' = 0
    /\ iterCap' = 0
    /\ progress' = <<>>
    /\ stages' = <<>>
    /\ UNCHANGED <<links, minSeparation, forceCfg, octVars, ioVars>>

NextReuse == Next \/ OptCallAgain

SpecReuse == OptInit /\ [][NextReuse]_vars

----------------------------------------------------------------------------
(* SpatialOptimizerV2.calculateBounds and normalizePositions *)

\* Infinity, as a value beyond every coordinate
Infinity == 1000000000

RECURSIVE BoundsFrom(_, _, _)
\* the loop of calculateBounds from node i on, b holding the minima and maxima
BoundsFrom(ns, b, i) ==
    IF i > Len(ns) THEN b
    ELSE BoundsFrom(ns,
                    [minX |-> Min2(b.minX, ns[i].x), maxX |-> Max2(b.maxX, ns[i].x),
                     minY |-> Min2(b.minY, ns[i].y), maxY |-> Max2(b.maxY, ns[i].y),
                     minZ |-> Min2(b.minZ, ns[i].z), maxZ |-> Max2(b.maxZ, ns[i].z)],
                    i + 1)

\* calculateBounds; the centres (min + max) / 2 are kept doubled, as min + max
CalculateBounds(ns) ==
    LET b == BoundsFrom(ns, [minX |-> Infinity, maxX |-> -Infinity, minY |-> Infinity,
                             maxY |-> -Infinity, minZ |-> Infinity, maxZ |-> -Infinity], 1)
    IN  [minX |-> b.minX, maxX |-> b.maxX, minY |-> b.minY, maxY |-> b.maxY,
         minZ |-> b.minZ, maxZ |-> b.maxZ,
         centerX2 |-> b.minX + b.maxX, centerY2 |-> b.minY + b.maxY,
         centerZ2 |-> b.minZ + b.maxZ]

\* (v - center) * (target / current), with the doubled centre
Rescale(v, center2, target, current) == TruncDiv((2 * v - center2) * target, 2 * current)

NormalizePositionsNoCenter(ns, targetBounds) ==
    LET bounds == CalculateBounds(ns)
        currentWidth == bounds.maxX - bounds.minX
        currentHeight == bounds.maxY - bounds.minY
        currentDepth == bounds.maxZ - bounds.minZ
    IN  IF targetBounds # {} /\ currentWidth > 0 /\ currentHeight > 0 /\ currentDepth > 0
        THEN LET t == CHOOSE t \in targetBounds : TRUE
             IN  [i \in DOMAIN ns |->
                    [ns[i] EXCEPT !.x = Rescale(@, 0, t.width, currentWidth),
                                  !.y = Rescale(@, 0, t.height, currentHeight),
                                  !.z = Rescale(@, 0, t.depth, currentDepth)]]
        ELSE ns

\* normalizePositions; an absent targetBounds is the empty set, a given one
\* the set of it
NormalizePositions(ns, targetBounds) ==
    LET bounds == CalculateBounds(ns)
        currentWidth == bounds.maxX - bounds.minX
        currentHeight == bounds.maxY - bounds.minY
        currentDepth == bounds.maxZ - bounds.minZ
    IN  IF targetBounds # {} /\ currentWidth > 0 /\ currentHeight > 0 /\ currentDepth > 0
        THEN LET t == CHOOSE t \in targetBounds : TRUE
             IN  [i \in DOMAIN ns |->
                    [ns[i] EXCEPT !.x = Rescale(@, bounds.centerX2, t.width, currentWidth),
                                  !.y = Rescale(@, bounds.centerY2, t.height, currentHeight),
                                  !.z = Rescale(@, bounds.centerZ2, t.depth, currentDepth)]]
        ELSE ns

MaxNormNodes == 3

NormPoints ==
    { <<0, 0, 0>>, <<3 * U, 2 * U, U>>, <<-U, 2 * U, 4 * U>>, <<3 * U, -2 * U, U \div 2>> }

NormNodeArrays ==
    UNION { { [i \in 1..n |-> MkNode(i, ps[i], U, "sphere", "", 1)] : ps \in [1..n -> NormPoints] } :
            n \in 0..MaxNormNodes }

NormTargets ==
    { {}, { [width |-> 20 * U, height |-> 10 * U, depth |-> 4 * U] },
      { [width |-> 0, height |-> 2 * U, depth |-> U \div 2] } }

NormInit ==
    /\ OctIdle
    /\ IoIdle
    /\ nodes \in NormNodeArrays
    /\ links = <<>>
    /\ minSeparation = DefaultMinSeparation
    /\ forceCfg = DefaultForceConfig
    /\ config = [useForceDirected |-> FALSE]
    /\ pc = "idle"
    /\ passes = 0
    /\ passCap = 0
    /\ collisions = <<>>
    /\ totalResolved = 0
    /\ velocities = <<>>
    /\ iter = 0
    /\ iterCap = 0
    /\ progress = <<>>
    /\ stages = <<>>

\* optimizer.normalizePositions(nodes, targetBounds); config keeps the argument
Normalize ==
    /\ pc = "idle"
    /\ \E tb \in NormTargets :
         /\ config' = [targetBounds |-> tb]
         /\ nodes' = NormalizePositions(nodes, tb)
    /\ pc' = "normalized"
    /\ UNCHANGED <<links, minSeparation, forceCfg, passes, passCap, collisions,
                   totalResolved, velocities, iter, iterCap, progress, stages, octVars, ioVars>>

NormNext == Normalize

SpecNormalize == NormInit /\ [][NormNext]_vars

----------------------------------------------------------------------------
(* LayoutTemplates called directly *)

MaxTplNodes == 4

LayoutTypes ==
    { "research-paper", "documentation", "project-planning", "knowledge-base",
      "tutorial", "hierarchical", "timeline", "concept-map" }

\* what a node given to a template can be: <<title, level>>
TplKinds ==
    << <<"Introduction", 1>>, <<"Methods and Results", 2>>, <<"Overview", 2>>,
       <<"Notes", 3>>, <<"API Guide", 2>>, <<"Project Goals", 1>>,
       <<"Task list (done)", 3>>, <<"Blocking issue", 7>>, <<"Home", 0>>,
       <<"Summary", 2>>, <<"Conclusion", 2>>, <<"References", 2>>, <<"", 1>>,
       <<"Appendix", -1>> >>

\* the node arrays a template is applied to: n successive kinds, from any first
TplNodeArrays ==
    { [i \in 1..n |->
         LET k == TplKinds[((first + i - 2) % Len(TplKinds)) + 1]
         IN  [MkNode(i, <<i * U, -i * U, 7 * U>>, U, "sphere", "", k[2]) EXCEPT !.title = k[1]]] :
      n \in 1..MaxTplNodes, first \in 1..Len(TplKinds) }

TplInit ==
    /\ OctIdle
    /\ IoIdle
    /\ nodes \in TplNodeArrays
    /\ links = <<>>
    /\ minSeparation = DefaultMinSeparation
    /\ forceCfg = DefaultForceConfig
    /\ config = [useForceDirected |-> FALSE]
    /\ pc = "idle"
    /\ passes = 0
    /\ passCap = 0
    /\ collisions = <<>>
    /\ totalResolved = 0
    /\ velocities = <<>>
    /\ iter = 0
    /\ iterCap = 0
    /\ progress = <<>>
    /\ stages = <<>>

\* templates.applyTemplate(nodes, layoutType), to the nodes as given or as an
\* earlier applyTemplate left them; the call returns or throws
ApplyTo(before, after) ==
    /\ pc = before
    /\ \E layoutType \in LayoutTypes :
         /\ nodes' = ApplyTemplate(nodes, layoutType)
         /\ stages' = Append(stages, layoutType)
         /\ pc' = IF TemplateThrows(nodes, layoutType) THEN "threw" ELSE after
    /\ UNCHANGED <<links, config, minSeparation, forceCfg, passes, passCap, collisions,
                   totalResolved, velocities, iter, iterCap, progress, octVars, ioVars>>

TplApply == ApplyTo("idle", "templated")

TplApplyAgain == ApplyTo("templated", "templatedAgain")

TplNext == TplApply \/ TplApplyAgain

SpecTemplates == TplInit /\ [][TplNext]_vars

----------------------------------------------------------------------------
(* ChunkManager (core/memory-monitor.ts)                                   *)
(*                                                                         *)
(* A JavaScript string is a sequence of UTF-16 code units; length,         *)
(* indexing and substring count code units.  The units modelled are a      *)
(* letter "a", the newline "NL", "<", ">", a high surrogate "HI", a low    *)
(* surrogate "LO" and the replacement character "FFFD".  A file is the     *)
(* sequence of UTF-8 encoded code points written to it: one token per code *)
(* point, "PAIR" for the code point of a surrogate pair.                   *)

\* what Node writes for a string with encoding 'utf-8' (fs.writeFile, and
\* hash.update of a string): a surrogate pair is one code point, a surrogate
\* without its partner is written as U+FFFD
RECURSIVE Utf8Encode(_)
Utf8Encode(s) ==
    IF s = <<>> THEN <<>>
    ELSE IF Len(s) >= 2 /\ s[1] = "HI" /\ s[2] = "LO"
         THEN <<"PAIR">> \o Utf8Encode(SubSeq(s, 3, Len(s)))
    ELSE IF s[1] \in {"HI", "LO"} THEN <<"FFFD">> \o Utf8Encode(Tail(s))
    ELSE <<s[1]>> \o Utf8Encode(Tail(s))

\* fs.readFile(path, 'utf-8')
RECURSIVE Utf8Decode(_)
Utf8Decode(b) ==
    IF b = <<>> THEN <<>>
    ELSE IF b[1] = "PAIR" THEN <<"HI", "LO">> \o Utf8Decode(Tail(b))
    ELSE <<b[1]>> \o Utf8Decode(Tail(b))

\* crypto.createHash('sha256').update(s).digest('hex'): a digest of the UTF-8
\* bytes of s, taken as free of collisions
Sha256(s) == <<"sha256", Utf8Encode(s)>>

\* (chunk.match(/</g) || []).length
RECURSIVE CountUnit(_, _)
CountUnit(s, u) ==
    IF s = <<>> THEN 0
    ELSE (IF s[1] = u THEN 1 ELSE 0) + CountUnit(Tail(s), u)

IsSafeBreakPoint(chunk) == CountUnit(chunk, "<") = CountUnit(chunk, ">")

LookBack == 1000

\* the backward search of splitXMLIntoChunks: the first i in 0..999 with
\* endPosition - i > position and xml[endPosition - i] a newline moves the end
\* to just after that newline.  Positions are 0-based as in the code; x[k + 1]
\* is the code's xml[k].
SafeEndPosition(x, position, endPosition) ==
    LET last == Min2(LookBack - 1, endPosition - position - 1)
        hits == {i \in 0..last : x[endPosition - i + 1] = "NL"}
    IN  IF hits = {} THEN endPosition
        ELSE endPosition - (CHOOSE i \in hits : \A j \in hits : i <= j) + 1

\* one turn of the while loop of splitXMLIntoChunks: the end of the chunk that
\* starts at position
ChunkEnd(x, size, position) ==
    LET endPosition == Min2(position + size, Len(x))
    IN  IF endPosition < Len(x)
        THEN LET safeEndPosition == SafeEndPosition(x, position, endPosition)
             IN  IF IsSafeBreakPoint(SubSeq(x, position + 1, safeEndPosition))
                 THEN safeEndPosition
                 ELSE endPosition
        ELSE endPosition

RECURSIVE SplitFrom(_, _, _)
SplitFrom(x, size, position) ==
    IF position >= Len(x) THEN <<>>
    ELSE LET endPosition == ChunkEnd(x, size, position)
         IN  <<SubSeq(x, position + 1, endPosition)>> \o SplitFrom(x, size, endPosition)

SplitXMLIntoChunks(x, size) == SplitFrom(x, size, 0)

RECURSIVE OffsetAfter(_, _)
OffsetAfter(chs, i) == IF i = 0 THEN 0 ELSE OffsetAfter(chs, i - 1) + Len(chs[i])

\* the metadata chunkXML stores for chunk i (chunkId is 'chunk-' and the
\* sequence number)
ChunkMetadata(chs, i) ==
    [chunkId     |-> i,
     sequence    |-> i,
     size        |-> Len(chs[i]),
     hash        |-> Sha256(chs[i]),
     startOffset |-> OffsetAfter(chs, i - 1),
     endOffset   |-> OffsetAfter(chs, i)]

ChunkManifest(x, size, chs) ==
    [totalChunks |-> Len(chs),
     totalSize   |-> Len(x),
     chunkSize   |-> size,
     chunks      |-> [i \in 1..Len(chs) |-> ChunkMetadata(chs, i)],
     sourceHash  |-> Sha256(x)]

Threw(message) == [status |-> "threw", error |-> message]

\* assembleChunks: the loop over manifest.chunks from chunk i on, with
\* assembledXML so far, then the final checks and the write of the output file
RECURSIVE AssembleFrom(_, _, _, _)
AssembleFrom(files, man, i, assembledXML) ==
    IF i > Len(man.chunks)
    THEN IF Len(assembledXML) # man.totalSize THEN Threw("Assembled size mismatch")
         ELSE IF Sha256(assembledXML) # man.sourceHash THEN Threw("Assembled hash mismatch")
         ELSE [status |-> "written", content |-> Utf8Encode(assembledXML)]
    ELSE LET chunkContent == Utf8Decode(files[i])
         IN  IF Sha256(chunkContent) # man.chunks[i].hash THEN Threw("Chunk hash mismatch")
             ELSE IF Len(chunkContent) # man.chunks[i].size THEN Threw("Chunk size mismatch")
             ELSE AssembleFrom(files, man, i + 1, assembledXML \o chunkContent)

----------------------------------------------------------------------------
(* chunkXML then assembleChunks, as testChunkedSystem calls them *)

MaxXmlLen == 4

ChunkSizes == {2, 3}

CodeUnits == {"a", "NL", "<", ">", "HI", "LO"}

\* every surrogate is half of a pair
WellFormed(s) ==
    \A i \in 1..Len(s) :
        /\ s[i] = "HI" => i < Len(s) /\ s[i + 1] = "LO"
        /\ s[i] = "LO" => i > 1 /\ s[i - 1] = "HI"

XmlStrings ==
    {s \in UNION {[1..n -> CodeUnits] : n \in 0..MaxXmlLen} : WellFormed(s)}

ChunkInit ==
    /\ OctIdle
    /\ ColIdle
    /\ OptIdle
    /\ TrIdle
    /\ PoolIdle
    /\ xml \in XmlStrings
    /\ chunkSize \in ChunkSizes
    /\ chunkFiles = <<>>
    /\ manifest = [totalChunks |-> 0]
    /\ outputFile = [status |-> "none"]

\* chunkManager.chunkXML(xml, outputName)
ChunkXML ==
    /\ pc = "idle"
    /\ \E chs \in {SplitXMLIntoChunks(xml, chunkSize)} :
        /\ chunkFiles' = [i \in 1..Len(chs) |-> Utf8Encode(chs[i])]
        /\ manifest' = ChunkManifest(xml, chunkSize, chs)
    /\ pc' = "chunked"
    /\ UNCHANGED <<xml, chunkSize, outputFile, nodes, minSeparation, passes, passCap,
                   collisions, totalResolved, octVars, optVars, trVars, poolVars>>

\* chunkManager.assembleChunks(manifestPath): the output file is written and
\* the chunk directory removed, or an error is thrown and the chunks stay
AssembleChunks ==
    /\ pc = "chunked"
    /\ \E result \in {AssembleFrom(chunkFiles, manifest, 1, <<>>)} :
        /\ outputFile' = result
        /\ chunkFiles' = IF result.status = "written" THEN <<>> ELSE chunkFiles
    /\ pc' = "assembled"
    /\ UNCHANGED <<xml, chunkSize, manifest, nodes, minSeparation, passes, passCap,
                   collisions, totalResolved, octVars, optVars, trVars, poolVars>>

ChunkNext == ChunkXML \/ AssembleChunks

SpecChunks == ChunkInit /\ [][ChunkNext]_vars

----------------------------------------------------------------------------
(* CacheManager (core/cache-manager.ts) and OptimizedTransformer           *)
(* (core/optimized-transformer.ts)                                         *)
(*                                                                         *)
(* A markdown text is modelled by the sequence of its heading texts, a     *)
(* document by its meta title and author and its number of nodes.  The     *)
(* transform cache is the sequence of its entries, most recently used      *)
(* first; entries are taken not to expire while the calls are made.        *)

TransformCacheMax == 50

\* CacheManager.hashMarkdown
HashMarkdown(markdown) == Sha256(markdown)

\* the position of key in the cache, 0 when absent
CacheIndex(cache, key) ==
    IF \E i \in 1..Len(cache) : cache[i].key = key
    THEN CHOOSE i \in 1..Len(cache) : cache[i].key = key
    ELSE 0

WithoutIndex(cache, i) == SubSeq(cache, 1, i - 1) \o SubSeq(cache, i + 1, Len(cache))

\* LRUCache.set, and LRUCache.get followed by assignments to the cached
\* object: the key's entry holds value and becomes the most recently used;
\* beyond max entries the least recently used one is dropped
CacheSet(cache, key, value) ==
    LET i    == CacheIndex(cache, key)
        rest == IF i = 0 THEN cache ELSE WithoutIndex(cache, i)
        all  == <<[key |-> key, value |-> value]>> \o rest
    IN  IF Len(all) > TransformCacheMax THEN SubSeq(all, 1, TransformCacheMax) ELSE all

\* EnhancedTransformer.transform: the empty document for a text without
\* sections, else a document titled after the first section with one node per
\* section
Transform(markdown) ==
    IF markdown = <<>>
    THEN [meta  |-> [title |-> "Empty Document", author |-> "Markdown3D Intelligence Engine"],
          nodes |-> 0]
    ELSE [meta  |-> [title  |-> IF markdown[1] = "" THEN "Untitled" ELSE markdown[1],
                     author |-> "Markdown3D Intelligence Engine"],
          nodes |-> Len(markdown)]

\* if (options.title) doc.meta.title = options.title; the same for author
ApplyOverrides(doc, options) ==
    [doc EXCEPT !.meta.title  = IF options.title # "" THEN options.title ELSE @,
                !.meta.author = IF options.author # "" THEN options.author ELSE @]

\* options.useCache !== false
CacheWanted(options) == options.useCache # "false"

----------------------------------------------------------------------------
(* transformWithOptimizations called on one OptimizedTransformer, as       *)
(* testPerformance does                                                    *)

MaxCalls == 3

Markdowns == {<<>>, <<"Section 0">>, <<"Section 0", "Section 1">>}

\* useCache is true, false or absent; title and author are absent ("") or given
TransformOptions ==
    [useCache : {"true", "false", "absent"}, title : {"", "Report"}, author : {""}]

TrInit ==
    /\ OctIdle
    /\ ColIdle
    /\ OptIdle
    /\ ChunkIdle
    /\ TrIdle
    /\ PoolIdle

\* transformer.transformWithOptimizations(markdown, options), a call that
\* returns: the cache lookup, the transform (the texts are below the streaming
\* threshold of 50000 characters), the overrides, the store, and the finally
\* block
TransformWithOptimizations ==
    /\ Len(calls) < MaxCalls
    /\ \E markdown \in Markdowns, options \in TransformOptions :
        LET key == HashMarkdown(markdown)
            i   == CacheIndex(transformCache, key)
            hit == CacheWanted(options) /\ i # 0
            document ==
                IF hit THEN ApplyOverrides(transformCache[i].value, options)
                ELSE ApplyOverrides(Transform(markdown), options)
        IN  /\ transformCache' =
                   IF CacheWanted(options) THEN CacheSet(transformCache, key, document)
                   ELSE transformCache
            /\ cacheStats' =
                   IF ~CacheWanted(options) THEN cacheStats
                   ELSE IF hit THEN [cacheStats EXCEPT !.hits = @ + 1]
                   ELSE [cacheStats EXCEPT !.misses = @ + 1]
            /\ metrics' =
                   [cacheHits   |-> metrics.cacheHits + (IF hit THEN 1 ELSE 0),
                    cacheMisses |-> metrics.cacheMisses
                                      + (IF CacheWanted(options) /\ ~hit THEN 1 ELSE 0),
                    transforms  |-> metrics.transforms + 1]
            /\ calls' = Append(calls, [markdown |-> markdown, options |-> options,
                                       hit |-> hit, returned |-> document])
    /\ UNCHANGED <<octVars, colVars, optVars, chunkVars, poolVars>>

TrNext == TransformWithOptimizations

SpecTransform == TrInit /\ [][TrNext]_vars

----------------------------------------------------------------------------
(* simulate called on a new ForceDirected3D with the default config *)

MaxSimNodes == 3

MaxSimIterations == 2

SimPoints == { <<0, 0, 0>>, <<2 * U, 0, 0>>, <<5 * U, 5 * U, 5 * U>> }

\* the links argument: none, one link, a link and its reverse, a link twice,
\* a self-link, a link to an id that no node has
SimLinkArrays ==
    { <<>>,
      << [from |-> 1, to |-> 2] >>,
      << [from |-> 1, to |-> 2], [from |-> 2, to |-> 1] >>,
      << [from |-> 1, to |-> 2], [from |-> 1, to |-> 2] >>,
      << [from |-> 2, to |-> 2] >>,
      << [from |-> 1, to |-> 2], [from |-> 2, to |-> 9] >> }

SimNodeArrays ==
    UNION { { [i \in 1..n |-> MkNode(i, ps[i], U, "sphere", "", 1)] :
                ps \in [1..n -> SimPoints] } :
            n \in 2..MaxSimNodes }

SimInit ==
    /\ OctIdle
    /\ IoIdle
    /\ nodes \in SimNodeArrays
    /\ links \in SimLinkArrays
    /\ minSeparation = 0
    /\ forceCfg = DefaultForceConfig
    /\ config = [useForceDirected |-> FALSE]
    /\ pc = "idle"
    /\ passes = 0
    /\ passCap = 0
    /\ collisions = <<>>
    /\ totalResolved = 0
    /\ velocities = <<>>
    /\ iter = 0
    /\ iterCap = 0
    /\ progress = <<>>
    /\ stages = <<>>

\* simulate(nodes, links, iterations, progressCallback) up to the first test
\* of its for loop
SimStart ==
    /\ pc = "idle"
    /\ velocities' = [i \in DOMAIN nodes |-> Vec(0, 0, 0)]
    /\ iter' = 0
    /\ iterCap' \in 0..MaxSimIterations
    /\ pc' = IF 0 < iterCap' THEN "simulating" ELSE "simulated"
    /\ UNCHANGED <<nodes, links, config, minSeparation, forceCfg, passes, passCap,
                   collisions, totalResolved, progress, stages, octVars, ioVars>>

\* one iteration of the for loop of simulate
SimIter ==
    /\ pc = "simulating"
    /\ \E vel \in {NewVelocities(velocities,
                                  CalculateForces(nodes, BuildAdjacencyMap(links), forceCfg),
                                  forceCfg)} :
       LET total == TotalEnergy(vel, 1)
       IN  /\ velocities' = vel
           /\ nodes' = MoveNodes(nodes, vel)
           /\ progress' = Append(progress, [iteration |-> iter,
                                            energy |-> TruncDiv(total, Len(nodes))])
           /\ iter' = iter + 1
           /\ pc' = AfterIteration(iter + 1, iterCap, total, Len(nodes))
           /\ \A i \in DOMAIN nodes :
                /\ Abs(nodes[i].x + vel[i].x) <= MaxCoord
                /\ Abs(nodes[i].y + vel[i].y) <= MaxCoord
                /\ Abs(nodes[i].z + vel[i].z) <= MaxCoord
    /\ UNCHANGED <<links, config, minSeparation, forceCfg, passes, passCap, collisions,
                   totalResolved, iterCap, stages, octVars, ioVars>>

SimNext == SimStart \/ SimIter

SpecSimulate == SimInit /\ [][SimNext]_vars

----------------------------------------------------------------------------
(* WorkerPool *)

\* assignTaskToWorker(worker, task): worker.postMessage, then __currentTask
AssignTaskToWorker(state, worker, task) ==
    [state EXCEPT !.posted[worker] = @ \cup {task},
                  !.currentTask[worker] = task]

\* the body of the Promise executor of execute(data) for the new task
Execute(state, task) ==
    IF state.availableWorkers # <<>>
    THEN LET worker == state.availableWorkers[Len(state.availableWorkers)]
         IN  AssignTaskToWorker(
                 [state EXCEPT !.availableWorkers = SubSeq(@, 1, Len(@) - 1)],
                 worker, task)
    ELSE [state EXCEPT !.taskQueue = Append(@, task)]

\* task.resolve / task.reject: a promise is settled once
Settle(ps, task, outcome) ==
    IF ps[task] = "pending" THEN [ps EXCEPT ![task] = outcome] ELSE ps

\* handleWorkerMessage(worker, result), failed standing for result.error
HandleWorkerMessage(state, worker, failed) ==
    LET task == state.currentTask[worker]
    IN  IF task = 0 THEN state
        ELSE LET settled == [state EXCEPT
                                !.promises = Settle(@, task, IF failed THEN "rejected"
                                                                       ELSE "resolved"),
                                !.currentTask[worker] = 0]
             IN  IF settled.taskQueue # <<>>
                 THEN AssignTaskToWorker([settled EXCEPT !.taskQueue = Tail(@)],
                                         worker, Head(settled.taskQueue))
                 ELSE [settled EXCEPT !.availableWorkers = Append(@, worker)]

\* worker.on('error', ...): the handler writes to the console and nothing else
HandleWorkerError(state, worker) == state

----------------------------------------------------------------------------
(* A WorkerPool with its callers and its workers *)

MaxWorkers == 2

MaxTasks == 3

\* the fields of the pool and the promises it has handed out, as one record
PoolState ==
    [workers |-> workers, availableWorkers |-> availableWorkers, taskQueue |-> taskQueue,
     currentTask |-> currentTask, posted |-> posted, promises |-> promises]

PoolBecomes(state) ==
    /\ workers' = state.workers
    /\ availableWorkers' = state.availableWorkers
    /\ taskQueue' = state.taskQueue
    /\ currentTask' = state.currentTask
    /\ posted' = state.posted
    /\ promises' = state.promises

\* new WorkerPool(workerScript, maxWorkers): the constructor and initializeWorkers
PoolInit ==
    /\ OctIdle
    /\ ColIdle
    /\ OptIdle
    /\ ChunkIdle
    /\ TrIdle
    /\ \E maxWorkers \in 1..MaxWorkers :
         /\ workers = [i \in 1..maxWorkers |-> i]
         /\ availableWorkers = [i \in 1..maxWorkers |-> i]
         /\ currentTask = [i \in 1..maxWorkers |-> 0]
         /\ posted = [i \in 1..maxWorkers |-> {}]
    /\ taskQueue = <<>>
    /\ crashed = {}
    /\ promises = <<>>

\* a thread of a worker is running: not exited after an error, not terminated
Running(worker) ==
    /\ worker \in DOMAIN posted
    /\ worker \notin crashed
    /\ workers # <<>>

\* pool.execute(data), up to the return of the promise
PoolExecute ==
    /\ Len(promises) < MaxTasks
    /\ PoolBecomes(Execute([PoolState EXCEPT !.promises = Append(@, "pending")],
                           Len(promises) + 1))
    /\ UNCHANGED <<crashed, octVars, colVars, optVars, chunkVars, trVars>>

\* a worker answers a task it was posted, with a result or with an error
\* string, and its 'message' handler runs
WorkerMessage(worker) ==
    /\ Running(worker)
    /\ \E task \in posted[worker], failed \in BOOLEAN :
         PoolBecomes(HandleWorkerMessage([PoolState EXCEPT !.posted[worker] = @ \ {task}],
                                         worker, failed))
    /\ UNCHANGED <<crashed, octVars, colVars, optVars, chunkVars, trVars>>

\* a worker throws while it works on a task: it emits 'error', its handler
\* runs, and the thread exits
WorkerError(worker) ==
    /\ Running(worker)
    /\ posted[worker] # {}
    /\ PoolBecomes(HandleWorkerError([PoolState EXCEPT !.posted[worker] = {}], worker))
    /\ crashed' = crashed \cup {worker}
    /\ UNCHANGED <<octVars, colVars, optVars, chunkVars, trVars>>

\* pool.terminate(): every worker thread is ended and both lists are emptied
PoolTerminate ==
    /\ workers # <<>>
    /\ workers' = <<>>
    /\ availableWorkers' = <<>>
    /\ posted' = [worker \in DOMAIN posted |-> {}]
    /\ UNCHANGED <<taskQueue, currentTask, crashed, promises,
                   octVars, colVars, optVars, chunkVars, trVars>>

PoolNext ==
    \/ PoolExecute
    \/ \E worker \in 1..MaxWorkers : WorkerMessage(worker)
    \/ \E worker \in 1..MaxWorkers : WorkerError(worker)
    \/ PoolTerminate

SpecPool == PoolInit /\ [][PoolNext]_vars

\* every running worker that has been given a task posts a reply or emits an
\* error in the end
PoolFairness ==
    \A worker \in 1..MaxWorkers : WF_vars(WorkerMessage(worker) \/ WorkerError(worker))

SpecPoolFair == SpecPool /\ PoolFairness

----------------------------------------------------------------------------
(* Properties of the octree *)

\* every entry stored anywhere in the subtree of a cell
RECURSIVE CellEntries(_)
CellEntries(cell) ==
    Range(cell.nodes) \cup UNION { CellEntries(cell.children[i]) : i \in 1..Len(cell.children) }

RECURSIVE CellShapeOk(_)
CellShapeOk(cell) ==
    \/ cell.children = <<>>
    \/ /\ Len(cell.children) = 8
       /\ cell.nodes = <<>>
       /\ \A i \in 1..8 : CellShapeOk(cell.children[i])

DistSq(n, x, y, z) ==
    (n.x - x) * (n.x - x) + (n.y - y) * (n.y - y) + (n.z - z) * (n.z - z)

OutsideWorld(n) ==
    \/ n.x < octBounds.minX \/ n.x > octBounds.maxX
    \/ n.y < octBounds.minY \/ n.y > octBounds.maxY
    \/ n.z < octBounds.minZ \/ n.z > octBounds.maxZ

\* C3: findNearby returns exactly the accepted entries whose Euclidean distance
\* from the query point is <= radius, each once: the brute-force scan's set.
C3_FindNearbyIsBruteForce ==
    octResult.op = "findNearby" =>
        LET brute == { e \in Range(accepted) :
                         DistSq(e, octResult.x, octResult.y, octResult.z)
                           <= octResult.radius * octResult.radius }
        IN  /\ Range(octResult.found) = brute
            /\ Len(octResult.found) = Cardinality(brute)

\* C3 witness: a query on a subdivided tree that returns some accepted entries
\* and leaves out others that lie inside the query's cube but outside its sphere.
C3_Witness ==
    /\ octResult.op = "findNearby"
    /\ root.children # <<>>
    /\ octResult.found # <<>>
    /\ \E e \in Range(accepted) :
         /\ e \notin Range(octResult.found)
         /\ e.x - octResult.x <= octResult.radius /\ octResult.x - e.x <= octResult.radius
         /\ e.y - octResult.y <= octResult.radius /\ octResult.y - e.y <= octResult.radius
         /\ e.z - octResult.z <= octResult.radius /\ octResult.z - e.z <= octResult.radius

\* C4: a queryRange over the whole world bounds returns exactly the entries
\* whose insert returned true, each exactly once, whatever was subdivided.
C4_WholeWorldQueryIsAccepted ==
    LET q == CellQueryRange(root, octBounds)
    IN  /\ Len(q) = Len(accepted)
        /\ Range(q) = Range(accepted)
        /\ (octResult.op = "queryRange" /\ octResult.range = octBounds
              => octResult.found = q)

\* C4 witness: a whole-world query answered on a tree that has subdivided and
\* has refused an entry.
C4_Witness ==
    /\ octResult.op = "queryRange" /\ octResult.range = octBounds
    /\ root.children # <<>>
    /\ Len(accepted) >= 3
    /\ inserts > Len(accepted)

\* C5: insert returns false exactly when the entry's center is outside the
\* world bounds, and then changes nothing; otherwise it returns true and the
\* entry is stored in the tree.
C5_InsertRefusesExactlyOutside ==
    [][inserts' = inserts + 1 =>
         LET n == octResult'.node
         IN  /\ octResult'.ok = ~OutsideWorld(n)
             /\ (OutsideWorld(n) => root' = root)
             /\ (~OutsideWorld(n) =>
                   /\ n \in CellEntries(root')
                   /\ CellEntries(root') = CellEntries(root) \cup {n})]_vars

\* C5 witness: an insert was refused after others had been stored.
C5_Witness ==
    /\ octResult.op = "insert"
    /\ octResult.ok = FALSE
    /\ accepted # <<>>

\* C6: every cell is a leaf without children or an internal cell with exactly
\* 8 children and no entries of its own.
C6_LeafOrInternal == CellShapeOk(root)

\* the number of entries stored in the subtree of a cell
RECURSIVE CellCount(_)
RECURSIVE CountFrom(_, _)
CountFrom(children, i) ==
    IF i > Len(children) THEN 0 ELSE CellCount(children[i]) + CountFrom(children, i + 1)

CellCount(cell) == Len(cell.nodes) + CountFrom(cell.children, 1)

\* a cell created during the step: if it has subdivided it is below the
\* maximum depth and has taken more entries than its capacity
RECURSIVE CreatedCellOk(_)
CreatedCellOk(cell) ==
    /\ cell.depth >= cell.maxDepth => cell.children = <<>>
    /\ cell.children # <<>> =>
          /\ cell.depth < cell.maxDepth
          /\ CellCount(cell) > cell.maxNodes
          /\ \A i \in 1..Len(cell.children) : CreatedCellOk(cell.children[i])

\* a cell that existed before the step, as it was and as it is; called tells
\* whether the step calls insert(node) on it
RECURSIVE ExistingCellOk(_, _, _, _)
ExistingCellOk(before, after, node, called) ==
    LET inserted   == called /\ Contains(before, node)
        subdivides == before.children = <<>> /\ after.children # <<>>
        descends   == /\ inserted
                      /\ ~(Len(before.nodes) < before.maxNodes \/ before.depth >= before.maxDepth)
    IN  /\ subdivides <=> /\ inserted
                          /\ Len(before.nodes) >= before.maxNodes
                          /\ before.children = <<>>
                          /\ before.depth < before.maxDepth
        /\ before.depth >= before.maxDepth =>
              /\ after.children = <<>>
              /\ inserted => after.nodes = Append(before.nodes, node)
        /\ subdivides => \A i \in 1..Len(after.children) : CreatedCellOk(after.children[i])
        /\ before.children # <<>> =>
              /\ Len(after.children) = Len(before.children)
              /\ \A i \in 1..Len(before.children) :
                    ExistingCellOk(before.children[i], after.children[i], node,
                                   /\ descends
                                   /\ \A j \in 1..(i - 1) : ~Contains(before.children[j], node))

\* C17: a cell subdivides exactly when an entry is inserted into it while it
\* holds leaf-capacity entries, has no children yet and is below the maximum
\* depth; a cell at the maximum depth never subdivides and takes the entry.
C17_SubdividesExactlyWhenFull ==
    [][inserts' = inserts + 1 =>
         ExistingCellOk(root, root', octResult'.node, TRUE)]_vars

\* C17 witness: an insert made a cell subdivide whose child, at the maximum
\* depth, holds more entries than the capacity.
C17_Witness ==
    /\ octResult.op = "insert"
    /\ root.children # <<>>
    /\ \E i \in 1..8 :
          /\ root.children[i].depth = root.children[i].maxDepth
          /\ Len(root.children[i].nodes) > root.children[i].maxNodes

\* the centre of the entry lies on one of the three planes that bisect the cell
OnMidPlane(cell, e) ==
    \/ e.x = Mid(cell.bounds.minX, cell.bounds.maxX)
    \/ e.y = Mid(cell.bounds.minY, cell.bounds.maxY)
    \/ e.z = Mid(cell.bounds.minZ, cell.bounds.maxZ)

RECURSIVE MidPlaneEntriesKept(_)
MidPlaneEntriesKept(cell) ==
    \A i \in 1..Len(cell.children) :
        /\ \A e \in CellEntries(cell.children[i]) : ~OnMidPlane(cell, e)
        /\ MidPlaneEntriesKept(cell.children[i])

\* C18: in a cell that has children, an entry whose centre lies exactly on a
\* bisecting midpoint plane is in the cell's own list, not in any child.
C18_MidPlaneEntryStaysInParent == MidPlaneEntriesKept(root)

\* the depth of the deepest cell of the subtree
RECURSIVE DeepestCell(_)
RECURSIVE DeepestFrom(_, _, _)
DeepestFrom(children, i, d) ==
    IF i > Len(children) THEN d
    ELSE LET c == DeepestCell(children[i])
         IN  DeepestFrom(children, i + 1, IF c > d THEN c ELSE d)

DeepestCell(cell) == DeepestFrom(cell.children, 1, cell.depth)

SameCentre(e, f) == e.x = f.x /\ e.y = f.y /\ e.z = f.z

\* C19: every insert returns, with true or false, also when more than
\* leaf-capacity entries share one centre, and leaves no cell deeper than the
\* maximum depth.
C19_InsertReturnsWithinDepth ==
    [][inserts' = inserts + 1 =>
         /\ octResult'.op = "insert"
         /\ octResult'.ok \in BOOLEAN
         /\ Len(accepted') = Len(accepted) + (IF octResult'.ok THEN 1 ELSE 0)
         /\ DeepestCell(root') <= root'.maxDepth]_vars

\* C19 witness: an insert has returned on a tree that holds more entries of
\* one centre than the leaf capacity and has cells at the maximum depth.
C19_Witness ==
    /\ octResult.op = "insert"
    /\ DeepestCell(root) = root.maxDepth
    /\ \E e \in Range(accepted) :
          /\ SameCentre(e, octResult.node)
          /\ Cardinality({f \in Range(accepted) : SameCentre(e, f)}) > root.maxNodes + 1

----------------------------------------------------------------------------
(* Properties of the collision detector *)

PairDistSq(a, b) ==
    (a.x - b.x) * (a.x - b.x) + (a.y - b.y) * (a.y - b.y) + (a.z - b.z) * (a.z - b.z)

\* the minimum allowed center-to-center distance: 1.0*scale1 + 1.0*scale2 + m
MinAllowed(a, b, m) == ScaleOf(a) + ScaleOf(b) + m

Separated(ns, m) ==
    \A i, j \in 1..Len(ns) :
        i < j => PairDistSq(ns[i], ns[j]) >= MinAllowed(ns[i], ns[j], m) * MinAllowed(ns[i], ns[j], m)

\* C1: if detectCollisions returns an empty list, every pair of distinct nodes
\* has center-to-center distance >= 1.0*scale1 + 1.0*scale2 + minSeparation.
C1_NoCollisionsMeansSeparated ==
    DetectCollisions(nodes, minSeparation) = <<>> => Separated(nodes, minSeparation)

\* C7: resolveCollisions makes at most maxIterations detection passes; while
\* it runs, passes are left and every pass so far found collisions; each pass
\* adds one to the count, a pass that finds no collision moves no node and
\* ends the call, a pass that finds some is followed by another unless it was
\* pass number maxIterations; so the call has returned either after a
\* zero-collision pass or after exactly maxIterations passes.
C7_StateOk ==
    /\ passes <= passCap
    /\ (pc = "resolving" => passes < passCap /\ (passes > 0 => collisions # <<>>))
    /\ (pc = "returned" => \/ passes = passCap
                           \/ passes > 0 /\ collisions = <<>>)

C7_PassOk ==
    pc = "resolving" =>
        /\ passes' = passes + 1
        /\ (collisions' = <<>> => nodes' = nodes /\ pc' = "returned")
        /\ (collisions' # <<>> /\ passes' < passCap => pc' = "resolving")
        /\ (passes' = passCap => pc' = "returned")

C7_ResolveTerminates == [][C7_StateOk /\ C7_PassOk /\ C7_StateOk']_vars

\* C7 witnesses: a call that returned early on a zero-collision pass after
\* passes that moved nodes, and (in C7_WitnessExhausted, used with it) a call
\* that used up its passes with collisions left.
C7_Witness ==
    /\ pc = "returned"
    /\ passes >= 2 /\ passes < passCap
    /\ collisions = <<>>
    /\ totalResolved > 0

C7_WitnessExhausted ==
    /\ pc = "returned"
    /\ passes = passCap /\ passCap >= 2
    /\ collisions # <<>>

----------------------------------------------------------------------------
(* Properties of optimize *)

\* C2: when the collision-resolution stage of optimize ended on a pass that
\* found zero collisions, the positions optimize leaves have zero collisions
\* under detectCollisions with the same minimum separation.
C2_OptimizeLeavesNoCollisions ==
    (pc = "done" /\ config.useCollisionResolution /\ collisions = <<>>)
        => DetectCollisions(nodes, minSeparation) = <<>>

StageRank(p) ==
    CASE p = "idle" -> 0
      [] p = "stage1" -> 1
      [] p = "force" -> 2
      [] p = "simulating" -> 3
      [] p = "collide" -> 4
      [] p = "optResolving" -> 5
      [] p = "conventions" -> 6
      [] OTHER -> 7

ExpectedStages(cfg) ==
    << IF cfg.useLayoutTemplate = "none" THEN "random" ELSE "template" >>
      \o (IF cfg.useForceDirected THEN <<"force">> ELSE <<>>)
      \o (IF cfg.useCollisionResolution THEN <<"collide">> ELSE <<>>)
      \o <<"conventions">>

InSpread(n, r) == n.x * n.x + n.y * n.y + n.z * n.z <= r * r

\* C8: optimize goes through template or random initialization, then the
\* force simulation iff useForceDirected, then collision resolution iff
\* useCollisionResolution, then the axis conventions, in this order and each to
\* its end; nodes move only inside a stage that is enabled, and random
\* initialization places every node.
C8_StepOk ==
    /\ StageRank(pc') >= StageRank(pc)
    /\ (nodes' # nodes => pc \in {"stage1", "simulating", "optResolving", "conventions"})
    /\ (pc \in {"force", "simulating"} => config.useForceDirected)
    /\ (pc \in {"collide", "optResolving"} => config.useCollisionResolution)
    /\ (pc = "stage1" /\ config.useLayoutTemplate = "none" =>
          \A i \in DOMAIN nodes : InSpread(nodes'[i], Max2(10 * U, 2 * U * Len(nodes))))
    /\ (pc = "stage1" => stages' = <<ExpectedStages(config)[1]>>)
    /\ (pc = "simulating" /\ pc' # "simulating" =>
          iter' = iterCap \/ progress'[Len(progress')].energy * 100 < U)
    /\ (pc = "optResolving" /\ pc' # "optResolving" =>
          passes' = ResolveIterations \/ collisions' = <<>>)
    /\ (pc' = "done" => pc = "conventions" /\ stages' = ExpectedStages(config))

C8_StagesInOrder == [][C8_StepOk]_vars

\* C8 witness: optimize has returned from a call with random initialization,
\* the force simulation disabled and collision resolution enabled, whose
\* resolution moved nodes and ended on a pass without collisions.
C8_Witness ==
    /\ pc = "done"
    /\ ~config.useForceDirected /\ config.useCollisionResolution
    /\ stages = <<"random", "collide", "conventions">>
    /\ progress = <<>>
    /\ totalResolved > 0 /\ passes >= 2 /\ collisions = <<>>

\* word is one of the tags of the comma-joined tags
HasTag(tags, word) ==
    \E i \in 1..(Len(tags) - Len(word) + 1) :
        LET j == i + Len(word) - 1
        IN  /\ SubSeq(tags, i, j) = word
            /\ (i = 1 \/ SubSeq(tags, i - 1, i - 1) = ",")
            /\ (j = Len(tags) \/ SubSeq(tags, j + 1, j + 1) = ",")

\* the change of C9's rule to a node n, as <<dy, dz>>
C9_Rule(n) ==
    LET sc == IF n.scale = 0 THEN U ELSE n.scale
    IN  << CASE n.type = "pyramid" -> 2 * U
             [] n.type = "torus" -> U
             [] n.type = "cube" /\ (HasTag(n.tags, "code") \/ HasTag(n.tags, "technical")) -> -U
             [] OTHER -> 0,
           IF 10 * sc > 15 * U THEN 5 * U ELSE IF 10 * sc < 8 * U THEN -3 * U ELSE 0 >>

\* C9: the axis-convention stage adds to z: +5 if scale > 1.5, -3 if scale <
\* 0.8, else 0 (a missing scale being 1.0); to y: +2 for a pyramid, +1 for a
\* torus, -1 for a cube that carries a code or a technical tag, else 0; and
\* changes nothing else of any node.
C9_AxisConventions ==
    [][pc = "conventions" =>
         /\ Len(nodes') = Len(nodes)
         /\ \A i \in DOMAIN nodes :
              nodes'[i] = [nodes[i] EXCEPT !.y = @ + C9_Rule(nodes[i])[1],
                                           !.z = @ + C9_Rule(nodes[i])[2]]]_vars

\* the energy passed to the callback is below 0.01
LowEnergy(e) == e * 100 < U

\* C10: simulate runs iterations 0, 1, 2, ... in order, calls the progress
\* callback once per iteration with its index and its energy, stops right
\* after the first iteration whose energy is below 0.01, and never runs more
\* than the iteration cap, which in optimize is config.maxIterations or 100.
C10_SimulateIterations ==
    /\ Len(progress) = iter
    /\ \A k \in 1..Len(progress) : progress[k].iteration = k - 1
    /\ \A k \in 1..(Len(progress) - 1) : ~LowEnergy(progress[k].energy)
    /\ (iter > 0 => progress[iter].energy = TruncDiv(TotalEnergy(velocities, 1), Len(nodes)))
    /\ iter <= iterCap
    /\ (pc = "simulating" =>
          /\ iter < iterCap
          /\ (iter > 0 => ~LowEnergy(progress[iter].energy))
          /\ iterCap = IF config.maxIterations # 0 THEN config.maxIterations ELSE 100)
    /\ (StageRank(pc) > 3 /\ config.useForceDirected =>
          iter = iterCap \/ (iter > 0 /\ LowEnergy(progress[iter].energy)))

\* C10 witness: a simulation of several nodes stopped before its cap, after
\* more than one iteration, on an energy below 0.01.
C10_Witness ==
    /\ StageRank(pc) > 3
    /\ Len(nodes) >= 2
    /\ iter >= 2 /\ iter < iterCap
    /\ LowEnergy(progress[iter].energy)

\* a simulation that ran all 100 iterations of the default cap without its
\* energy falling below 0.01
C10_WitnessAtCap ==
    /\ StageRank(pc) > 3
    /\ config.maxIterations = 0
    /\ iter = DefaultIterations /\ iterCap = DefaultIterations
    /\ ~LowEnergy(progress[iter].energy)

\* the documented defaults of the force constants
C11_Defaults ==
    [repulsionStrength |-> 50 * U, attractionStrength |-> U \div 10,
     centeringStrength |-> U \div 100, damping |-> (8 * U) \div 10,
     minDistance |-> 3 * U, maxDistance |-> 30 * U]

\* C11: the force constants a simulation runs with and the minimum separation
\* a collision resolution runs with are those of the config of the optimize
\* call they belong to, or the documented defaults where that config omits
\* them, whatever earlier calls on the same optimizer were given.
C11_CallUsesOwnConfig ==
    /\ (pc = "simulating" =>
          forceCfg = IF config.forceConfig = {} THEN C11_Defaults
                     ELSE LET f == CHOOSE f \in config.forceConfig : TRUE
                          IN  [k \in DOMAIN C11_Defaults |->
                                 IF k \in DOMAIN f THEN f[k] ELSE C11_Defaults[k]])
    /\ (pc = "optResolving" =>
          minSeparation = IF config.minSeparation # 0 THEN config.minSeparation ELSE 2 * U)

\* a node without its position
C12_Rest(n) == [n EXCEPT !.x = 0, !.y = 0, !.z = 0]

\* C12: no step of optimize changes the length or the order of the node
\* array, any field of a node other than x, y and z, or the links.
C12_OnlyPositionsChange ==
    [][/\ Len(nodes') = Len(nodes)
       /\ \A i \in DOMAIN nodes : C12_Rest(nodes'[i]) = C12_Rest(nodes[i])
       /\ links' = links]_vars

\* C12 witness: optimize has returned from a call in which all four stages
\* ran, the simulation iterated, the resolution pushed nodes apart and a node
\* without a scale went through the conventions.
C12_Witness ==
    /\ pc = "done"
    /\ Len(stages) = 4
    /\ iter > 0 /\ totalResolved > 0
    /\ links # <<>>
    /\ \E i \in DOMAIN nodes : nodes[i].scale = 0 /\ nodes[i].x # i * U

\* C13: applying a layout template to a node list that the same template was
\* just applied to leaves every node where it is, for each of the 8 templates.
C13_TemplateIdempotent ==
    [][(stages # <<>> /\ stages' = Append(stages, stages[Len(stages)])) => nodes' = nodes]_vars

\* C13 witness: the research-paper template has been applied twice to a list
\* with a node it places on the circle of the others and a node it does not
\* place at all.
C13_Witness ==
    /\ stages = <<"research-paper", "research-paper">>
    /\ \E i, j \in DOMAIN nodes :
         /\ nodes[i].title = "" /\ nodes[i].y = 0
         /\ nodes[j].title = "Conclusion" /\ nodes[j].y = -j * U

\* the least and the greatest coordinate c over the nodes of a non-empty array
C14_Least(ns, c) == CHOOSE v \in { ns[i][c] : i \in DOMAIN ns } : \A i \in DOMAIN ns : v <= ns[i][c]
C14_Greatest(ns, c) == CHOOSE v \in { ns[i][c] : i \in DOMAIN ns } : \A i \in DOMAIN ns : v >= ns[i][c]
C14_Extent(ns, c) == C14_Greatest(ns, c) - C14_Least(ns, c)

\* C14: normalizePositions with a target, on nodes whose extents on x, y and
\* z are all positive, leaves a bounding box centred at the origin with the
\* target's width, height and depth as extents; without a target, or with an
\* extent of 0, it moves no node.
C14_Normalized ==
    [][pc' = "normalized" =>
         IF /\ config'.targetBounds # {}
            /\ nodes # <<>>
            /\ \A c \in {"x", "y", "z"} : C14_Extent(nodes, c) > 0
         THEN LET t == CHOOSE t \in config'.targetBounds : TRUE
              IN  /\ \A c \in {"x", "y", "z"} : C14_Least(nodes', c) + C14_Greatest(nodes', c) = 0
                  /\ C14_Extent(nodes', "x") = t.width
                  /\ C14_Extent(nodes', "y") = t.height
                  /\ C14_Extent(nodes', "z") = t.depth
         ELSE nodes' = nodes]_vars

\* C14 witness: three nodes with positive extents were normalized into a
\* 20 x 10 x 4 box, one of them ending strictly inside it.
C14_Witness ==
    /\ pc = "normalized"
    /\ config.targetBounds = { [width |-> 20 * U, height |-> 10 * U, depth |-> 4 * U] }
    /\ Len(nodes) = 3
    /\ C14_Extent(nodes, "x") = 20 * U
    /\ \E i \in DOMAIN nodes : nodes[i].x > -10 * U /\ nodes[i].x < 10 * U

\* C14 witness of the other case: nodes with no extent on one axis were given
\* a target and stayed where they were.
C14_WitnessDegenerate ==
    /\ pc = "normalized"
    /\ config.targetBounds # {}
    /\ Len(nodes) = 2
    /\ C14_Extent(nodes, "x") = 0 /\ C14_Extent(nodes, "y") = 4 * U

----------------------------------------------------------------------------
(* Properties of the ChunkManager *)

RECURSIVE Flatten(_)
Flatten(chs) == IF chs = <<>> THEN <<>> ELSE Head(chs) \o Flatten(Tail(chs))

\* the chunks are non-empty and their concatenation is the original; the
\* manifest lists them in sequence order, each starting where the previous
\* one ends
C15_ChunksPartition ==
    pc \in {"chunked", "assembled"} =>
        LET chs == SplitXMLIntoChunks(xml, chunkSize)
        IN  /\ \A i \in 1..Len(chs) : chs[i] # <<>>
            /\ Flatten(chs) = xml
            /\ manifest.totalChunks = Len(chs)
            /\ \A i \in 1..Len(chs) :
                   /\ manifest.chunks[i].sequence = i
                   /\ manifest.chunks[i].startOffset =
                          (IF i = 1 THEN 0 ELSE manifest.chunks[i - 1].endOffset)
                   /\ manifest.chunks[i].endOffset =
                          manifest.chunks[i].startOffset + Len(chs[i])

\* C15: chunkXML followed by assembleChunks writes an output file whose
\* content is the original string, and the chunks are non-empty, contiguous,
\* in sequence order and concatenate to the original.
C15_ChunkRoundTrip ==
    /\ C15_ChunksPartition
    /\ pc = "assembled" =>
           /\ outputFile.status = "written"
           /\ Utf8Decode(outputFile.content) = xml

\* a string whose surrogate pair is cut by a chunk boundary has been chunked
\* and assembled
C15_Witness ==
    /\ pc = "assembled"
    /\ \E i \in 1..(manifest.totalChunks - 1) :
           /\ xml[manifest.chunks[i].endOffset] = "HI"
           /\ xml[manifest.chunks[i].endOffset + 1] = "LO"

----------------------------------------------------------------------------
(* Properties of the OptimizedTransformer *)

\* C16: once a call for markdown m has completed, a later call for m with
\* useCache: true is a transform-cache hit and returns the cached document.
C16_LaterCallHitsCache ==
    \A j \in 1..Len(calls) :
        (/\ calls[j].options.useCache = "true"
         /\ \E i \in 1..(j - 1) : calls[i].markdown = calls[j].markdown)
        => /\ calls[j].hit
           /\ transformCache[1].value = calls[j].returned

\* a call with useCache: true has hit the cache after an earlier caching call
C16_Witness ==
    \E j \in 2..Len(calls) :
        /\ calls[j].options.useCache = "true"
        /\ calls[j].hit
        /\ calls[j - 1].markdown = calls[j].markdown

----------------------------------------------------------------------------
(* Properties of simulate *)

\* the sum of the distances of all pairs of nodes; the average pairwise
\* distance is this sum over the number of pairs, which a run does not change
RECURSIVE PairDistanceFrom(_, _, _)
PairDistanceFrom(ns, i, j) ==
    IF i >= Len(ns) THEN 0
    ELSE IF j > Len(ns) THEN PairDistanceFrom(ns, i + 1, i + 2)
    ELSE Sqrt(PairDistSq(ns[i], ns[j])) + PairDistanceFrom(ns, i, j + 1)

TotalPairDistance(ns) == PairDistanceFrom(ns, 1, 2)

AllAtOnePoint(ns) == \A i \in 1..Len(ns) : PairDistSq(ns[1], ns[i]) = 0

\* C20: with at least two nodes, no links and all nodes starting at one
\* point, an iteration of simulate strictly increases the average pairwise
\* distance; stated for the first iteration, which starts from the common point.
C20_CoincidentNodesSpread ==
    [][(/\ pc = "simulating"
        /\ iter = 0
        /\ iter' = 1
        /\ links = <<>>
        /\ Len(nodes) >= 2
        /\ AllAtOnePoint(nodes))
       => TotalPairDistance(nodes') > TotalPairDistance(nodes)]_vars

----------------------------------------------------------------------------
(* Further properties of the collision detector *)

\* the rounding the fixed-point square roots and quotients of one pass can
\* add up to, in units of 1/U: three coordinates, each truncated twice
RoundingSlack == 3 * 2

Distance(a, b) == Sqrt(PairDistSq(a, b))

\* how far the node moved
Moved(before, after) == Distance(before, after)

\* C21: a resolution pass over a colliding pair with distinct centres, no
\* other node involved, widens the distance of the pair by 0.5 * overlap:
\* node1 moves 0.5 * overlap * scale2 / (scale1 + scale2), node2 moves
\* 0.5 * overlap * scale1 / (scale1 + scale2), and the pair does not pass the
\* minimum distance.
C21_PairPushedByHalfOverlap ==
    [][(/\ pc = "resolving"
        /\ passes' = passes + 1
        /\ Len(nodes) = 2
        /\ collisions' # <<>>
        /\ PairDistSq(nodes[1], nodes[2]) > 0)
       => LET overlap == MinAllowed(nodes[1], nodes[2], minSeparation)
                           - Distance(nodes[1], nodes[2])
              total   == ScaleOf(nodes[1]) + ScaleOf(nodes[2])
          IN  /\ Abs(2 * (Distance(nodes'[1], nodes'[2]) - Distance(nodes[1], nodes[2]))
                       - overlap) <= RoundingSlack
              /\ Abs(2 * total * Moved(nodes[1], nodes'[1]) - overlap * ScaleOf(nodes[2]))
                   <= RoundingSlack * total
              /\ Abs(2 * total * Moved(nodes[2], nodes'[2]) - overlap * ScaleOf(nodes[1]))
                   <= RoundingSlack * total
              /\ Distance(nodes'[1], nodes'[2])
                   <= MinAllowed(nodes[1], nodes[2], minSeparation) + RoundingSlack]_vars

----------------------------------------------------------------------------
(* Further properties of the layout templates *)

\* the band of a node: its level clamped into 1..5, a missing level (0) or a
\* level below 1 counting as 1
Band(node) == IF node.level < 1 THEN 1 ELSE IF node.level > 5 THEN 5 ELSE node.level

\* C22: the hierarchical template never fails and places every node in the
\* band L of its level clamped into 1..5: y = verticalSpread -
\* (L-1)*verticalSpread/2, z = -(L-1)*depthSpread/4, and the k nodes of a band
\* get x = (i - k/2)*spacing for i = 0..k-1 in list order.
C22_HierarchicalBands ==
    [][(/\ pc \in {"idle", "templated"}
        /\ stages' = Append(stages, "hierarchical"))
       => /\ pc' # "threw"
          /\ \A n \in DOMAIN nodes :
               LET L == Band(nodes[n])
                   band == { j \in DOMAIN nodes : Band(nodes[j]) = L }
                   k == Cardinality(band)
                   i == Cardinality({ j \in band : j < n })
                   c == DefaultLayoutConfig
               IN  /\ nodes'[n].y = c.verticalSpread - TruncDiv((L - 1) * c.verticalSpread, 2)
                   /\ nodes'[n].z = - TruncDiv((L - 1) * c.depthSpread, 4)
                   /\ nodes'[n].x = TruncDiv((2 * i - k) * c.spacing, 2)]_vars


\* the first node of the list whose title has one of the words, 0 if none
FirstTitled(ns, words) ==
    IF \E k \in DOMAIN ns : TitleHas(ns[k], words)
    THEN CHOOSE k \in DOMAIN ns :
             /\ TitleHas(ns[k], words)
             /\ \A j \in 1..(k - 1) : ~TitleHas(ns[j], words)
    ELSE 0

At(node, px, py, pz) == node.x = px /\ node.y = py /\ node.z = pz

\* C23: after the research-paper template the first node whose title contains
\* 'intro', 'abstract' or 'overview' is at (0, verticalSpread, 0) and the first
\* whose title contains 'conclusion', 'summary' or 'future' is at
\* (0, -verticalSpread, 0).
C23_IntroTopConclusionBottom ==
    [][(/\ pc \in {"idle", "templated"}
        /\ stages' = Append(stages, "research-paper"))
       => LET intro == FirstTitled(nodes, {"intro", "abstract", "overview"})
              conclusion == FirstTitled(nodes, {"conclusion", "summary", "future"})
          IN  /\ intro # 0 => At(nodes'[intro], 0, DefaultLayoutConfig.verticalSpread, 0)
              /\ conclusion # 0 =>
                    At(nodes'[conclusion], 0, -DefaultLayoutConfig.verticalSpread, 0)]_vars

----------------------------------------------------------------------------
(* Further properties of simulate *)

\* the positions one iteration of simulate gives with the links ls
PositionsWith(ls) ==
    MoveNodes(nodes, NewVelocities(velocities,
                                   CalculateForces(nodes, BuildAdjacencyMap(ls), forceCfg),
                                   forceCfg))

\* links that repeat what the links say already, or say nothing: a copy or a
\* reversed copy of a link, a self-link of a node, a link to an unknown id
RedundantLinks ==
    { links[k] : k \in 1..Len(links) }
      \cup { [from |-> links[k].to, to |-> links[k].from] : k \in 1..Len(links) }
      \cup { [from |-> nodes[i].id, to |-> nodes[i].id] : i \in 1..Len(nodes) }
      \cup { [from |-> 9, to |-> 8] }

\* C24: the adjacency built from the links is symmetric, and in every
\* iteration of simulate a further copy or reversed copy of a link, a
\* self-link or a link between ids that no node has would give the same
\* positions; links naming an id without a node are passed over.
C24_AdjacencyIsUndirectedSet ==
    [][(pc = "simulating" /\ iter' = iter + 1)
       => /\ LET adjacency == BuildAdjacencyMap(links)
             IN  \A a \in DOMAIN adjacency : \A b \in adjacency[a] :
                     b \in DOMAIN adjacency /\ a \in adjacency[b]
          /\ \A extra \in RedundantLinks :
                PositionsWith(Append(links, extra)) = nodes']_vars

\* C24 witness: an iteration has run with a link and its reversed copy between
\* two nodes far enough apart to attract each other.
C24_Witness ==
    /\ iter = 1
    /\ Len(links) = 2 /\ links[2] = [from |-> links[1].to, to |-> links[1].from]
    /\ velocities[1] # Vec(0, 0, 0)
    /\ PairDistSq(nodes[1], nodes[2]) > forceCfg.minDistance * forceCfg.minDistance

----------------------------------------------------------------------------
(* Further properties of resolveCollisions *)

Displacement(before, after) ==
    Vec(after.x - before.x, after.y - before.y, after.z - before.z)

Dot(v, w) == v.x * w.x + v.y * w.y + v.z * w.z

\* the smaller of the two pushes of a record, 0.5 * overlap * scale / totalScale,
\* is at least four units of the fixed-point grid, so that a push of that
\* length along any direction is not rounded to nothing
AboveResolution(ns, c) ==
    LET scale1 == ScaleOf(ns[NodeIndex(ns, c.node1)])
        scale2 == ScaleOf(ns[NodeIndex(ns, c.node2)])
        least == IF scale1 < scale2 THEN scale1 ELSE scale2
    IN  c.overlap * least >= 4 * 2 * (scale1 + scale2)

\* both nodes of the recorded pair have moved, away from each other
PairDisplaced(before, after, c) ==
    LET i1 == NodeIndex(before, c.node1)
        i2 == NodeIndex(before, c.node2)
        d1 == Displacement(before[i1], after[i1])
        d2 == Displacement(before[i2], after[i2])
    IN  /\ d1 # Vec(0, 0, 0)
        /\ d2 # Vec(0, 0, 0)
        /\ Dot(d1, d2) < 0

\* C25: in every resolution pass each pair recorded as colliding has both of
\* its nodes displaced by a non-zero amount in opposite directions, also when
\* the two centres coincide.
C25_CollidingPairsAreMoved ==
    [][(pc = "resolving" /\ passes' = passes + 1)
       => \A k \in 1..Len(collisions') :
              AboveResolution(nodes, collisions'[k])
              => PairDisplaced(nodes, nodes', collisions'[k])]_vars

----------------------------------------------------------------------------
(* Further properties of the Octree *)

\* C27: clear() leaves a single empty leaf at the original bounds with the
\* capacity and the maximum depth of the constructor still in force (no step
\* changes them), so that every query returns nothing and later inserts build
\* what they build on a newly constructed Octree.
C27_ClearKeepsConstructorArgs ==
    [][/\ root'.maxNodes = root.maxNodes
       /\ root'.maxDepth = root.maxDepth
       /\ octResult'.op = "clear"
          => /\ root' = NewCell(octBounds, 0, root.maxNodes, root.maxDepth)
             /\ CellQueryRange(root', OctWorld) = <<>>]_vars

----------------------------------------------------------------------------
(* Further properties of applyTemplate *)

\* the same node list, every node at another position
Elsewhere(ns) ==
    [k \in DOMAIN ns |-> [ns[k] EXCEPT !.x = 0 - 3 * k * U, !.y = 5 * U, !.z = k]]

\* C26: after applyTemplate has returned, every node is where the template
\* puts it for the node list and the layout config alone: the same call on the
\* same list with every node at another position ends with the same positions.
C26_PositionsIndependentOfStart ==
    [][\A layoutType \in LayoutTypes :
          (stages' = Append(stages, layoutType) /\ pc' # "threw")
          => nodes' = ApplyTemplate(Elsewhere(nodes), layoutType)]_vars

----------------------------------------------------------------------------
(* Further properties of the forces *)

RECURSIVE SumVec(_, _)
\* the sum of the vectors vs[i], vs[i + 1], ...
SumVec(vs, i) == IF i > Len(vs) THEN Vec(0, 0, 0) ELSE VecAdd(vs[i], SumVec(vs, i + 1))

\* every coordinate of v is within the slack of 0
Within(v, slack) == Abs(v.x) <= slack /\ Abs(v.y) <= slack /\ Abs(v.z) <= slack

\* C28: with unique node ids the forces of an iteration sum to zero over all
\* nodes, and so do the velocities, which start at zero and share one damping:
\* the sum of the node positions, and with it the centroid, is not moved by an
\* iteration. Each quotient of the fixed-point arithmetic rounds by less than
\* one grid unit, which gives a slack of one unit per node for the forces and
\* of two units per node and iteration for the velocities.
C28_ForcesSumToZero ==
    [][(pc = "simulating" /\ iter' = iter + 1)
       => LET n == Len(nodes)
              forces == CalculateForces(nodes, BuildAdjacencyMap(links), forceCfg)
          IN  /\ Within(SumVec(forces, 1), n)
              /\ Within(SumVec(velocities', 1), 2 * n * iter')
              /\ \A c \in {"x", "y", "z"} :
                    SumCoord(nodes', c, 1) - SumCoord(nodes, c, 1) = SumVec(velocities', 1)[c]]_vars

\* C28 witness: two iterations have run on three nodes at three points with a
\* link between two nodes that are further apart than minDistance, so that
\* repulsion, attraction and centering have all acted.
C28_Witness ==
    /\ iter = 2
    /\ Len(nodes) = 3
    /\ links # <<>>
    /\ \A i \in DOMAIN velocities : velocities[i] # Vec(0, 0, 0)
    /\ PairDistSq(nodes[1], nodes[2]) > forceCfg.minDistance * forceCfg.minDistance
    /\ PairDistSq(nodes[1], nodes[3]) > 0 /\ PairDistSq(nodes[2], nodes[3]) > 0

----------------------------------------------------------------------------
(* Further properties of the OptimizedTransformer *)

\* C29: a title or author override reaches only the document of its own call:
\* every call without overrides, whether served from the cache or not, returns
\* the document with the title and author derived from its markdown.
C29_OverridesStayWithTheirCall ==
    \A j \in 1..Len(calls) :
        (calls[j].options.title = "" /\ calls[j].options.author = "")
        => /\ calls[j].returned.meta.title = Transform(calls[j].markdown).meta.title
           /\ calls[j].returned.meta.author = Transform(calls[j].markdown).meta.author

----------------------------------------------------------------------------
(* Properties of the WorkerPool *)

\* no worker has been posted more than one task that it has not answered
OneTaskInFlight == \A worker \in DOMAIN posted : Cardinality(posted[worker]) <= 1

\* a task is in the queue only while no worker is available
QueuedOnlyWhenNoWorkerAvailable == taskQueue # <<>> => availableWorkers = <<>>

Pending(task) == task <= Len(promises) /\ promises[task] = "pending"

Settled(task) == task <= Len(promises) /\ promises[task] \in {"resolved", "rejected"}

\* C30: every task given to execute is settled in the end, its promise
\* resolved or rejected, when every worker answers the task it was given with a
\* reply or an error and the pool is not terminated; no worker ever has more
\* than one task in flight, and a task is queued only while no worker is
\* available.
C30_EveryTaskSettled ==
    /\ [](OneTaskInFlight /\ QueuedOnlyWhenNoWorkerAvailable)
    /\ \A task \in 1..MaxTasks : Pending(task) ~> (Settled(task) \/ workers = <<>>)

====
